---------------------------- MODULE Spec2Model ----------------------------
(***************************************************************************)
(* A model of the Multi_Agent_Dev agents: the /mcp dispatch envelope       *)
(* (shared/mcp_base.py), the LLM and Jira gateways (shared/llm_client.py,  *)
(* shared/jira.py) and the seven tool handlers (agents/*/agent.py).        *)
(*                                                                         *)
(* One agent process is modelled.  Its construction (which agent class,    *)
(* and the environment its gateways read) is chosen in Init; requests      *)
(* arrive on request slots and run the endpoint's code up to the next      *)
(* outbound network call, where the coroutine is suspended.                *)
(*                                                                         *)
(* A Python str is a sequence of one-character strings, so that replace,   *)
(* split, strip, lstrip, lower and "in" are computed as Python computes    *)
(* them.  A JSON / Python value is a tagged record:                        *)
(*   [t |-> "str", s |-> chars]   [t |-> "int", n |-> k]   [t |-> "null"]  *)
(*   [t |-> "list", xs |-> seq]   [t |-> "dict", m |-> [key -> value]]     *)
(***************************************************************************)
EXTENDS Naturals, Sequences, FiniteSets, TLC

(***************************************************************************)
(* Python str operations                                                   *)
(***************************************************************************)

\* str.strip() with no argument removes these (ASCII whitespace)
Whitespace == {" ", "\t", "\n", "\r", "\f"}

RECURSIVE lstrip(_, _)
lstrip(s, chars) ==
    IF s # <<>> /\ Head(s) \in chars THEN lstrip(Tail(s), chars) ELSE s

RECURSIVE rstrip(_, _)
rstrip(s, chars) ==
    IF s # <<>> /\ s[Len(s)] \in chars
    THEN rstrip(SubSeq(s, 1, Len(s) - 1), chars)
    ELSE s

strip(s) == rstrip(lstrip(s, Whitespace), Whitespace)

\* s.startswith(p)
startswith(s, p) == Len(p) <= Len(s) /\ SubSeq(s, 1, Len(p)) = p

\* p in s
contains(s, p) ==
    \E i \in 1..(Len(s) + 1) :
        i + Len(p) - 1 <= Len(s) /\ SubSeq(s, i, i + Len(p) - 1) = p

\* s.replace(old, new): every non-overlapping occurrence, left to right
RECURSIVE replace(_, _, _)
replace(s, old, new) ==
    IF Len(s) < Len(old) THEN s
    ELSE IF SubSeq(s, 1, Len(old)) = old
         THEN new \o replace(SubSeq(s, Len(old) + 1, Len(s)), old, new)
         ELSE <<Head(s)>> \o replace(Tail(s), old, new)

\* s.split(sep) for a one-character sep
RECURSIVE split(_, _)
split(s, sep) ==
    IF \A i \in 1..Len(s) : s[i] # sep THEN <<s>>
    ELSE LET i == CHOOSE j \in 1..Len(s) :
                      s[j] = sep /\ \A k \in 1..(j - 1) : s[k] # sep
         IN  <<SubSeq(s, 1, i - 1)>> \o split(SubSeq(s, i + 1, Len(s)), sep)

\* sep.join(parts)
RECURSIVE join(_, _)
join(parts, sep) ==
    IF parts = <<>> THEN <<>>
    ELSE IF Len(parts) = 1 THEN parts[1]
    ELSE parts[1] \o sep \o join(Tail(parts), sep)

UpperCase ==
    <<"A","B","C","D","E","F","G","H","I","J","K","L","M",
      "N","O","P","Q","R","S","T","U","V","W","X","Y","Z">>
LowerCase ==
    <<"a","b","c","d","e","f","g","h","i","j","k","l","m",
      "n","o","p","q","r","s","t","u","v","w","x","y","z">>

\* s.lower()
lower(s) ==
    [i \in 1..Len(s) |->
        IF \E k \in 1..26 : UpperCase[k] = s[i]
        THEN LowerCase[CHOOSE k \in 1..26 : UpperCase[k] = s[i]]
        ELSE s[i]]

\* s[:n]
prefix(s, n) == SubSeq(s, 1, IF Len(s) < n THEN Len(s) ELSE n)

\* the elements of a sequence
Range(f) == {f[i] : i \in DOMAIN f}

\* [f(x) for x in xs if p(x)] is written with SelectSeq and this map
Map(xs, F(_)) == [i \in 1..Len(xs) |-> F(xs[i])]

(***************************************************************************)
(* Python / JSON values                                                    *)
(***************************************************************************)
Str(s) == [t |-> "str", s |-> s]
Int(n) == [t |-> "int", n |-> n]
None == [t |-> "null"]
List(xs) == [t |-> "list", xs |-> xs]
Dict(m) == [t |-> "dict", m |-> m]
EmptyMap == [k \in {} |-> None]

Digits == <<"0","1","2","3","4","5","6","7","8","9">>

\* str(n) for a natural number
RECURSIVE int_str(_)
int_str(n) ==
    IF n < 10 THEN <<Digits[n + 1]>>
    ELSE int_str(n \div 10) \o <<Digits[(n % 10) + 1]>>

S_None == <<"N","o","n","e">>

\* format(v) as an f-string field does it, for the values the inputs hold
format(v) ==
    CASE v.t = "str" -> v.s
      [] v.t = "int" -> int_str(v.n)
      [] v.t = "null" -> S_None

\* bool(v)
truthy(v) ==
    CASE v.t = "str" -> v.s # <<>>
      [] v.t = "int" -> v.n # 0
      [] v.t = "null" -> FALSE
      [] v.t = "list" -> v.xs # <<>>
      [] v.t = "dict" -> DOMAIN v.m # {}

(***************************************************************************)
(* Exceptions and call outcomes                                            *)
(***************************************************************************)
\* the outcome of a call: a returned value or a raised exception
Return(v) == [raised |-> FALSE, val |-> v]
Raise(type, msg) == [raised |-> TRUE, exc |-> [type |-> type, msg |-> msg]]

(***************************************************************************)
(* Request decoding (shared/mcp_base.py)                                   *)
(*  the bytes of a request body are one of                                 *)
(*    [form |-> "bytes"]             bytes that are not UTF-8              *)
(*    [form |-> "text"]              UTF-8 text that json.loads rejects    *)
(*    [form |-> "json", data |-> v]  the UTF-8 encoding of the JSON text   *)
(*                                   of the value v                        *)
(***************************************************************************)
E_InvalidJSON ==
    <<"I","n","v","a","l","i","d"," ","J","S","O","N">>
E_InvalidFormat ==
    <<"I","n","v","a","l","i","d"," ","M","C","P"," ","r","e","q","u","e","s","t"," ","f",
      "o","r","m","a","t">>
E_ProcessingFailed ==
    <<"R","e","q","u","e","s","t"," ","p","r","o","c","e","s","s","i","n","g"," ","f","a",
      "i","l","e","d">>
E_UnknownTool ==
    <<"U","n","k","n","o","w","n"," ","t","o","o","l",":"," ">>
E_InvalidParamsHead ==
    <<"I","n","v","a","l","i","d"," ","p","a","r","a","m","e","t","e","r","s"," ","f","o",
      "r"," ","t","o","o","l"," ","'">>
E_ExecutionFailed ==
    <<"T","o","o","l"," ","e","x","e","c","u","t","i","o","n"," ","f","a","i","l","e","d">>
H_InvalidJSON ==
    <<"S","e","n","d"," ","v","a","l","i","d"," ","J","S","O","N"," ","w","i","t","h"," ",
      "'","m","e","t","h","o","d","'"," ","a","n","d"," ","'","p","a","r","a","m","s","'">>
H_InvalidFormat ==
    <<"R","e","q","u","i","r","e","d"," ","f","i","e","l","d","s",":"," ","m","e","t","h",
      "o","d"," ","(","s","t","r",")",","," ","p","a","r","a","m","s"," ","(","d","i","c",
      "t",")">>
M_UnicodeDecode ==
    <<"'","u","t","f","-","8","'"," ","c","o","d","e","c"," ","c","a","n","'","t"," ","d",
      "e","c","o","d","e"," ","b","y","t","e">>
M_JSONDecode ==
    <<"E","x","p","e","c","t","i","n","g"," ","v","a","l","u","e">>
M_NotMapping ==
    <<"a","r","g","u","m","e","n","t"," ","a","f","t","e","r"," ","*","*"," ","m","u","s",
      "t"," ","b","e"," ","a"," ","m","a","p","p","i","n","g">>
M_Validation ==
    <<"v","a","l","i","d","a","t","i","o","n"," ","e","r","r","o","r"," ","f","o","r"," ",
      "M","C","P","R","e","q","u","e","s","t">>
M_UnexpectedKeyword ==
    <<"g","o","t"," ","a","n"," ","u","n","e","x","p","e","c","t","e","d"," ","k","e","y",
      "w","o","r","d"," ","a","r","g","u","m","e","n","t">>
M_MissingArgument ==
    <<"m","i","s","s","i","n","g"," ","r","e","q","u","i","r","e","d"," ","p","o","s","i",
      "t","i","o","n","a","l"," ","a","r","g","u","m","e","n","t">>
M_NoLen ==
    <<"o","b","j","e","c","t"," ","h","a","s"," ","n","o"," ","l","e","n","(",")">>
\* body.decode('utf-8')
bytes_decode(body) ==
    IF body.form = "bytes" THEN Raise("UnicodeDecodeError", M_UnicodeDecode)
    ELSE Return(body)

\* json.loads(text)
json_loads(text) ==
    IF text.form = "text" THEN Raise("JSONDecodeError", M_JSONDecode)
    ELSE Return(text.data)

\* a str that pydantic reads as an int
is_decimal(s) ==
    s # <<>> /\ \A i \in 1..Len(s) : \E k \in 1..10 : Digits[k] = s[i]

\* MCPRequest(**data): ** needs a mapping; pydantic (version 2) then validates
\* method: str, params: dict, id: int | None = None and ignores other keys
MCPRequest(data) ==
    IF data.t # "dict" THEN Raise("TypeError", M_NotMapping)
    ELSE LET m == data.m
             method_ok == "method" \in DOMAIN m /\ m["method"].t = "str"
             params_ok == "params" \in DOMAIN m /\ m["params"].t = "dict"
             id_ok == "id" \in DOMAIN m =>
                          \/ m["id"].t \in {"int", "null"}
                          \/ m["id"].t = "str" /\ is_decimal(m["id"].s)
         IN  IF method_ok /\ params_ok /\ id_ok
             THEN Return([method |-> m["method"].s,
                          params |-> m["params"].m,
                          id |-> IF "id" \in DOMAIN m THEN m["id"] ELSE None])
             ELSE Raise("ValidationError", M_Validation)

\* the try block of mcp: body, json.loads, MCPRequest
parse_request(body) ==
    LET text == bytes_decode(body)
    IN  IF text.raised THEN text
        ELSE LET data == json_loads(text.val)
             IN  IF data.raised THEN data ELSE MCPRequest(data.val)

\* the except clauses of that try block, in order
parse_error(exc) ==
    IF exc.type = "JSONDecodeError"
    THEN [error |-> E_InvalidJSON, details |-> exc.msg, hint |-> H_InvalidJSON]
    ELSE IF exc.type = "ValidationError"
    THEN [error |-> E_InvalidFormat, details |-> exc.msg, hint |-> H_InvalidFormat]
    ELSE [error |-> E_ProcessingFailed, details |-> exc.msg]

\* tool_name = req.method.replace("tools/", "")
S_tools_prefix == <<"t","o","o","l","s","/">>
resolve_tool_name(method) == replace(method, S_tools_prefix, <<>>)

(***************************************************************************)
(* The tool registry: a dict, which keeps insertion order                  *)
(***************************************************************************)
T_plan ==
    <<"p","l","a","n">>
T_plan_with_jira ==
    <<"p","l","a","n","_","w","i","t","h","_","j","i","r","a">>
T_analyze_progress ==
    <<"a","n","a","l","y","z","e","_","p","r","o","g","r","e","s","s">>
T_jira_velocity ==
    <<"j","i","r","a","_","v","e","l","o","c","i","t","y">>
T_daily_digest ==
    <<"d","a","i","l","y","_","d","i","g","e","s","t">>
T_analyze_image ==
    <<"a","n","a","l","y","z","e","_","i","m","a","g","e">>
T_analyze_risks ==
    <<"a","n","a","l","y","z","e","_","r","i","s","k","s">>
\* self.tools[name] = handler
register_tool(reg, name, handler) ==
    IF \E i \in 1..Len(reg) : reg[i].name = name
    THEN [i \in 1..Len(reg) |->
            IF reg[i].name = name THEN [name |-> name, handler |-> handler]
            ELSE reg[i]]
    ELSE Append(reg, [name |-> name, handler |-> handler])

\* list(self.tools.keys())
tool_keys(reg) == [i \in 1..Len(reg) |-> reg[i].name]
\* tool_name in self.tools
has_tool(reg, name) == \E i \in 1..Len(reg) : reg[i].name = name
\* self.tools[tool_name]
get_tool(reg, name) == reg[CHOOSE i \in 1..Len(reg) : reg[i].name = name].handler

\* the registrations of each agent's __init__, in order
AgentTools(agent) ==
    CASE agent = "Planner" ->
            register_tool(register_tool(<<>>, T_plan, "plan"),
                          T_plan_with_jira, "plan_with_jira")
      [] agent = "Progress" ->
            register_tool(register_tool(<<>>, T_analyze_progress, "analyze_progress"),
                          T_jira_velocity, "jira_velocity")
      [] agent = "Digest" -> register_tool(<<>>, T_daily_digest, "daily_digest")
      [] agent = "Image" -> register_tool(<<>>, T_analyze_image, "analyze_image")
      [] agent = "Risks" -> register_tool(<<>>, T_analyze_risks, "analyze_risks")

\* which agents construct a JiraClient
HasJira(agent) == agent \in {"Planner", "Progress"}

\* the keyword parameters each handler declares, and those without a default
Signature(handler) ==
    CASE handler = "plan" ->
            [params |-> {"description"}, required |-> {"description"}]
      [] handler = "plan_with_jira" ->
            [params |-> {"description", "project_key"}, required |-> {"description"}]
      [] handler = "analyze_progress" ->
            [params |-> {"commits"}, required |-> {"commits"}]
      [] handler = "jira_velocity" ->
            [params |-> {"project_key"}, required |-> {}]
      [] handler = "daily_digest" ->
            [params |-> {"date"}, required |-> {}]
      [] handler = "analyze_image" ->
            [params |-> {"image_url", "image_base64", "context"}, required |-> {}]
      [] handler = "analyze_risks" ->
            [params |-> {"feature"}, required |-> {"feature"}]

\* handler(**req.params): Python binds the keywords to the parameters, every
\* default being None, or raises TypeError before the body runs
bind_arguments(handler, params) ==
    LET sig == Signature(handler)
    IN  IF ~(DOMAIN params \subseteq sig.params)
        THEN Raise("TypeError", M_UnexpectedKeyword)
        ELSE IF ~(sig.required \subseteq DOMAIN params)
        THEN Raise("TypeError", M_MissingArgument)
        ELSE Return([k \in sig.params |->
                        IF k \in DOMAIN params THEN params[k] ELSE None])

(***************************************************************************)
(* LLM gateway (shared/llm_client.py)                                      *)
(***************************************************************************)
S_stub ==
    <<"s","t","u","b">>
S_groq ==
    <<"g","r","o","q">>
S_StubPrefix ==
    <<"[","s","t","u","b","]"," ">>
S_UnsupportedPrefix ==
    <<"[","u","n","s","u","p","p","o","r","t","e","d"," ","p","r","o","v","i","d","e","r",
      "]"," ">>
S_LLMErrorPrefix ==
    <<"[","L","L","M"," ","e","r","r","o","r","]"," ">>
\* os.getenv(name, default): the variable's value, a str, or the default
getenv(env, name, default) == IF env[name].t = "null" THEN default ELSE env[name]

\* LLMClient.__init__; the api key is read for provider groq only
LLMClient(env) ==
    LET provider == lower(getenv(env, "LLM_PROVIDER", Str(S_stub)).s)
    IN  IF provider = S_groq
        THEN [provider |-> provider, api_key |-> env["GROQ_API_KEY"]]
        ELSE [provider |-> provider]

\* __init__ raises RuntimeError("GROQ_API_KEY is not set"): no agent starts
LLMClientRaises(env) ==
    /\ lower(getenv(env, "LLM_PROVIDER", Str(S_stub)).s) = S_groq
    /\ ~truthy(env["GROQ_API_KEY"])

\* chat without its groq branch: every provider but stub is unsupported
chat_begin_no_groq(llm, prompt) ==
    IF llm.provider = S_stub
    THEN [net |-> FALSE, out |-> Return(S_StubPrefix \o prompt)]
    ELSE [net |-> FALSE, out |-> Return(S_UnsupportedPrefix \o llm.provider)]

\* chat up to the HTTP request: the providers that answer without one
chat_begin(llm, prompt) ==
    IF llm.provider = S_stub
    THEN [net |-> FALSE, out |-> Return(S_StubPrefix \o prompt)]
    ELSE IF llm.provider # S_groq
    THEN [net |-> FALSE, out |-> Return(S_UnsupportedPrefix \o llm.provider)]
    ELSE [net |-> TRUE]

\* chat without its except clause: the exception of the HTTP request leaves
\* the call
chat_end_uncaught(reply) ==
    IF reply.kind = "ok" THEN Return(reply.content)
    ELSE Raise("Exception", reply.msg)

\* chat from the HTTP reply on.  reply.kind is "ok" (a 2xx body with
\* choices[0].message.content), "transport" (client.post raises), "status"
\* (raise_for_status raises) or "shape" (the body lacks the path: KeyError);
\* every exception is caught and its text returned behind the prefix
chat_end(reply) ==
    IF reply.kind = "ok" THEN Return(reply.content)
    ELSE Return(S_LLMErrorPrefix \o reply.msg)

(***************************************************************************)
(* Ticket-tracker gateway (shared/jira.py)                                 *)
(***************************************************************************)
S_PROJ ==
    <<"P","R","O","J">>
S_EpicPrefix ==
    <<"[","E","p","i","c","]"," ">>
S_SubtaskPrefix ==
    <<"[","S","u","b","t","a","s","k"," ">>
S_SubtaskSep ==
    <<"]"," ">>
S_Done ==
    <<"D","o","n","e">>
S_InProgress ==
    <<"I","n"," ","P","r","o","g","r","e","s","s">>
S_ToDo ==
    <<"T","o"," ","D","o">>
done_statuses ==
    { <<"d","o","n","e">>, <<"c","l","o","s","e","d">>, <<"r","e","s","o","l","v","e","d">> }
\* JiraClient.__init__ with any([...]) for all([...]): real mode as soon as one
\* of the three is set
JiraClient_any(env) ==
    LET url == rstrip(getenv(env, "JIRA_URL", Str(<<>>)).s, {"/"})
        email == env["JIRA_EMAIL"]
        token == env["JIRA_API_TOKEN"]
    IN  [url |-> url, email |-> email, token |-> token,
         project_key |-> getenv(env, "JIRA_PROJECT_KEY", Str(S_PROJ)).s,
         mock_mode |-> ~(url # <<>> \/ truthy(email) \/ truthy(token))]

\* JiraClient.__init__
JiraClient(env) ==
    LET url == rstrip(getenv(env, "JIRA_URL", Str(<<>>)).s, {"/"})
        email == env["JIRA_EMAIL"]
        token == env["JIRA_API_TOKEN"]
    IN  [url |-> url, email |-> email, token |-> token,
         project_key |-> getenv(env, "JIRA_PROJECT_KEY", Str(S_PROJ)).s,
         mock_mode |-> ~(url # <<>> /\ truthy(email) /\ truthy(token))]

\* the mock issue key f"{project_key}-{hash(summary) % 1000}": str hashing is
\* seeded per process, so the number is kept as the hash of that summary
mock_key(jira, summary) == [project |-> jira.project_key, hash_of |-> summary]

\* create_task up to the HTTP request: mock mode answers without one
create_task_begin(jira, summary) ==
    IF jira.mock_mode
    THEN [net |-> FALSE,
          out |-> Return([status |-> "mock_created",
                          issue_key |-> mock_key(jira, summary),
                          url |-> [browse |-> mock_key(jira, summary)],
                          mock |-> TRUE])]
    ELSE [net |-> TRUE]

\* create_task from the HTTP reply on.  reply.kind is "created" (2xx with a
\* key), "status" (HTTPStatusError) or "transport" (any other exception)
create_task_end(jira, reply) ==
    IF reply.kind = "created"
    THEN Return([status |-> "created", issue_key |-> reply.key,
                 url |-> [browse |-> reply.key], id |-> reply.id, mock |-> FALSE])
    ELSE Return([status |-> "error", error |-> reply.msg, mock |-> FALSE])

Issue(key, summary, status) ==
    [key |-> key, fields |-> [summary |-> summary, status |-> [name |-> status]]]

\* get_project_issues up to the HTTP request
get_project_issues_begin(jira) ==
    IF jira.mock_mode
    THEN [net |-> FALSE,
          out |-> Return(<< Issue(jira.project_key \o <<"-", "1">>,
                                  "Implement authentication", S_Done),
                            Issue(jira.project_key \o <<"-", "2">>,
                                  "Add API documentation", S_InProgress),
                            Issue(jira.project_key \o <<"-", "3">>,
                                  "Setup CI/CD", S_ToDo) >>)]
    ELSE [net |-> TRUE]

\* get_project_issues from the HTTP reply on: data.get("issues", []), and
\* [] on any exception
get_project_issues_end(reply) ==
    IF reply.kind = "ok" THEN Return(reply.issues) ELSE Return(<<>>)

(***************************************************************************)
(* Reasoning steps (shared/models.py).  The timestamp, set from the clock  *)
(* at creation, is left out; the descriptions are not computed on and are  *)
(* kept as plain strings.                                                  *)
(***************************************************************************)
Step(n, d) == [step_number |-> n, description |-> d]
StepIn(n, d, x) == [step_number |-> n, description |-> d, input_data |-> x]
StepOut(n, d, x) == [step_number |-> n, description |-> d, output_data |-> x]

(***************************************************************************)
(* A handler invocation is a frame: the handler, where it stands (at), its *)
(* locals, and what the calls it made so far were.  at is "chat", "create" *)
(* or "search" before the gateway call of that name (arg its argument),    *)
(* "return" with result, or "raise" with exc.                              *)
(***************************************************************************)
NewFrame(handler) ==
    [handler |-> handler, at |-> "start", phase |-> "", loc |-> EmptyMap,
     arg |-> <<>>, result |-> None, exc |-> None,
     called |-> <<handler>>, chat_log |-> <<>>, jira_log |-> <<>>]

call_chat(f, phase, loc, prompt) ==
    [f EXCEPT !.at = "chat", !.phase = phase, !.loc = loc, !.arg = prompt]
call_create(f, phase, loc, summary) ==
    [f EXCEPT !.at = "create", !.phase = phase, !.loc = loc, !.arg = summary]
call_search(f, loc) ==
    [f EXCEPT !.at = "search", !.loc = loc, !.arg = <<>>]
returns(f, result) == [f EXCEPT !.at = "return", !.result = result]
raises(f, exc) == [f EXCEPT !.at = "raise", !.exc = exc]

(***************************************************************************)
(* DigestAgent.daily_digest (agents/digest/agent.py)                       *)
(***************************************************************************)
P_digest_1 ==
    <<"G","e","n","e","r","a","t","e"," ","a"," ","c","o","n","c","i","s","e"," ","d","a",
      "i","l","y"," ","p","r","o","j","e","c","t"," ","d","i","g","e","s","t"," ","f","o",
      "r"," ">>
P_digest_2 ==
    <<".","\n","\n","S","t","r","u","c","t","u","r","e",":","\n","U+1F4C5"," ","D","a",
      "t","e",":"," ">>
P_digest_3 ==
    <<"\n","\n","U+2705"," ","K","e","y"," ","A","c","h","i","e","v","e","m","e","n","t",
      "s"," ","(","2","-","3"," ","i","t","e","m","s",")",":","\n","-"," ","[","L","i",
      "s","t"," ","m","a","i","n"," ","a","c","c","o","m","p","l","i","s","h","m","e","n",
      "t","s","]","\n","\n","U+1F6A7"," ","C","u","r","r","e","n","t"," ","B","l","o","c",
      "k","e","r","s"," ","(","i","f"," ","a","n","y",")",":","\n","-"," ","[","L","i",
      "s","t"," ","o","r"," ","w","r","i","t","e"," ","'","N","o","n","e","'","]","\n",
      "\n","U+1F465"," ","T","e","a","m"," ","S","t","a","t","u","s",":","\n","-"," ","[",
      "B","r","i","e","f"," ","m","o","o","d","/","p","r","o","d","u","c","t","i","v","i",
      "t","y"," ","n","o","t","e","]","\n","\n","U+1F4CA"," ","P","r","o","g","r","e","s",
      "s"," ","S","u","m","m","a","r","y",":","\n","-"," ","[","1","-","2"," ","s","e",
      "n","t","e","n","c","e","s"," ","o","n"," ","o","v","e","r","a","l","l"," ","p","r",
      "o","g","r","e","s","s","]","\n","\n","K","e","e","p"," ","i","t"," ","p","o","s",
      "i","t","i","v","e",","," ","a","c","t","i","o","n","a","b","l","e",","," ","a","n",
      "d"," ","u","n","d","e","r"," ","1","5","0"," ","w","o","r","d","s"," ","t","o","t",
      "a","l",".">>
\* zero-padded decimal of width w
RECURSIVE zero_pad(_, _)
zero_pad(s, w) == IF Len(s) >= w THEN s ELSE zero_pad(<<"0">> \o s, w)

\* now.strftime("%Y-%m-%d") for a date [y, m, d]
strftime_ymd(now) ==
    zero_pad(int_str(now.y), 4) \o <<"-">> \o zero_pad(int_str(now.m), 2)
        \o <<"-">> \o zero_pad(int_str(now.d), 2)

\* daily_digest up to the chat call
daily_digest_start(f, kw, now) ==
    LET date == IF ~truthy(kw["date"]) THEN Str(strftime_ymd(now)) ELSE kw["date"]
        step1 == StepIn(1, "Daily digest requested",
                        [date |-> date, auto_date |-> (date.t = "null")])
        prompt == P_digest_1 \o format(date) \o P_digest_2 \o format(date)
                      \o P_digest_3
        step2 == Step(2, "Generated digest prompt")
    IN  call_chat(f, "", [date |-> date, reasoning |-> <<step1, step2>>], prompt)

\* daily_digest from the chat call's outcome on
daily_digest_finish(f, ret) ==
    IF ret.raised
    THEN returns(f, [date |-> f.loc.date,
                     error |-> ret.exc.msg,
                     reasoning |-> Append(f.loc.reasoning,
                         StepOut(4, "Digest generation failed",
                                 [error |-> ret.exc.msg])),
                     fallback |-> "No updates today"])
    ELSE returns(f, [date |-> f.loc.date,
                     summary |-> ret.val,
                     generated_at |-> "utcnow",
                     reasoning |-> Append(f.loc.reasoning,
                         StepOut(3, "Daily digest generated",
                                 [digest_length |-> Len(ret.val),
                                  date_used |-> f.loc.date]))])

(***************************************************************************)
(* ImageAgent.analyze_image (agents/image/agent.py)                        *)
(***************************************************************************)
P_image_1 ==
    <<"Y","o","u"," ","a","r","e"," ","a"," ","s","e","n","i","o","r"," ","U","X"," ","a",
      "n","d"," ","s","y","s","t","e","m"," ","d","e","s","i","g","n"," ","r","e","v","i",
      "e","w","e","r",".","\n","A","n","a","l","y","z","e"," ","t","h","e"," ","p","r",
      "o","v","i","d","e","d"," ","i","m","a","g","e"," ","a","n","d"," ","g","i","v","e",
      " ","s","t","r","u","c","t","u","r","e","d"," ","f","e","e","d","b","a","c","k",".",
      "\n","\n","C","o","n","t","e","x","t",":"," ">>
P_image_2 ==
    <<"\n","\n","P","r","o","v","i","d","e",":","\n","1","."," ","S","h","o","r","t"," ",
      "s","u","m","m","a","r","y","\n","2","."," ","D","e","t","e","c","t","e","d"," ",
      "i","s","s","u","e","s"," ","(","t","y","p","e"," ","+"," ","s","e","v","e","r","i",
      "t","y",")","\n","3","."," ","I","m","p","r","o","v","e","m","e","n","t"," ","s",
      "u","g","g","e","s","t","i","o","n","s","\n","K","e","e","p"," ","i","t"," ","c",
      "o","n","c","i","s","e"," ","a","n","d"," ","s","t","r","u","c","t","u","r","e","d",
      ".">>
S_NotProvided ==
    <<"N","o","t"," ","p","r","o","v","i","d","e","d">>
E_NoImage ==
    <<"N","o"," ","i","m","a","g","e"," ","p","r","o","v","i","d","e","d">>
\* analyze_image up to the chat call, or to its early return
analyze_image_start(f, kw) ==
    LET step1 == StepIn(1, "Image analysis requested",
                        [image_url |-> kw["image_url"],
                         has_base64 |-> (kw["image_base64"].t # "null"),
                         context |-> kw["context"]])
        context == IF truthy(kw["context"]) THEN kw["context"]
                   ELSE Str(S_NotProvided)
        prompt == P_image_1 \o format(context) \o P_image_2
        step2 == Step(2, "Generated image analysis prompt")
    IN  IF ~truthy(kw["image_url"]) /\ ~truthy(kw["image_base64"])
        THEN returns(f, [error |-> E_NoImage, reasoning |-> <<step1>>])
        ELSE call_chat(f, "", [reasoning |-> <<step1, step2>>], prompt)

\* analyze_image from the chat call's outcome on: the call is in no try block
analyze_image_finish(f, ret) ==
    IF ret.raised THEN raises(f, ret.exc)
    ELSE returns(f, [summary |-> ret.val,
                     reasoning |-> Append(f.loc.reasoning,
                         StepOut(3, "Image analysis completed",
                                 [analysis_length |-> Len(ret.val)]))])

(***************************************************************************)
(* ProgressAgent (agents/progress/agent.py)                                *)
(***************************************************************************)
P_progress_1 ==
    <<"Y","o","u"," ","a","r","e"," ","a"," ","p","r","o","g","r","e","s","s"," ","t","r",
      "a","c","k","i","n","g"," ","a","g","e","n","t",".","\n","A","n","a","l","y","z",
      "e"," ","t","h","e","s","e"," ","c","o","m","m","i","t","s"," ","a","n","d"," ","s",
      "u","m","m","a","r","i","z","e"," ","a","c","h","i","e","v","e","m","e","n","t","s",
      " ","a","n","d"," ","v","e","l","o","c","i","t","y",":","\n">>
P_progress_2 ==
    <<"\n","\n","B","e"," ","c","o","n","c","i","s","e"," ","a","n","d"," ","p","o","s",
      "i","t","i","v","e",".">>
S_dash ==
    <<"-"," ">>
\* what iterating over commits yields: the items of a list, the characters
\* of a str
iter_items(v) ==
    IF v.t = "list" THEN v.xs ELSE [i \in 1..Len(v.s) |-> Str(<<v.s[i]>>)]

\* len(v)
py_len(v) == IF v.t = "list" THEN Len(v.xs) ELSE Len(v.s)

bullet(c) == S_dash \o format(c)

\* analyze_progress up to the chat call; len(commits) and the iteration
\* raise TypeError for a value that has no length
analyze_progress_start(f, kw) ==
    LET commits == kw["commits"]
    IN  IF commits.t \notin {"list", "str"}
        THEN raises(f, [type |-> "TypeError", msg |-> M_NoLen])
        ELSE LET step1 == StepIn(1, "Received commits for progress analysis",
                                 [commits_count |-> py_len(commits)])
                 prompt == P_progress_1
                              \o join(Map(iter_items(commits), bullet), <<"\n">>)
                              \o P_progress_2
                 step2 == Step(2, "Generated prompt for progress summary")
             IN  call_chat(f, "", [commits |-> commits,
                                   reasoning |-> <<step1, step2>>], prompt)

\* analyze_progress from the chat call's outcome on
analyze_progress_finish(f, ret) ==
    IF ret.raised
    THEN returns(f, [commits_count |-> py_len(f.loc.commits),
                     error |-> ret.exc.msg,
                     reasoning |-> Append(f.loc.reasoning,
                         StepOut(4, "Progress analysis failed",
                                 [error |-> ret.exc.msg])),
                     fallback |-> "Manual review needed"])
    ELSE returns(f, [commits_count |-> py_len(f.loc.commits),
                     commits |-> f.loc.commits,
                     summary |-> ret.val,
                     reasoning |-> Append(f.loc.reasoning,
                         StepOut(3, "Received progress summary from LLM",
                                 [summary_length |-> Len(ret.val)]))])

jira_mode(jira) == IF jira.mock_mode THEN "mock" ELSE "real"

\* project_key or self.jira.project_key
project_of(kw, jira) ==
    IF truthy(kw["project_key"]) THEN kw["project_key"] ELSE Str(jira.project_key)

\* jira_velocity up to the tracker query
jira_velocity_start(f, kw, jira) ==
    LET step1 == StepIn(1, "Jira velocity analysis requested",
                        [project_key |-> project_of(kw, jira)])
    IN  call_search(f, [kw |-> kw, reasoning |-> <<step1>>])

\* an issue record that has issue["fields"]["status"]["name"]
well_formed(issue) ==
    /\ "fields" \in DOMAIN issue
    /\ "status" \in DOMAIN issue.fields
    /\ "name" \in DOMAIN issue.fields.status

\* the count of each status name
status_counts(issues) ==
    [s \in {issues[i].fields.status.name : i \in 1..Len(issues)} |->
        Cardinality({i \in 1..Len(issues) : issues[i].fields.status.name = s})]

\* sum(v for k, v in status_counts.items() if k.lower() in [...])
done_count(issues) ==
    Cardinality({i \in 1..Len(issues) :
                    lower(issues[i].fields.status.name) \in done_statuses})

\* round((done / total) * 100, 1) in tenths of a percent; with fewer than
\* 16 issues no quotient lies half way between two tenths
completion_rate(done, total) == (2000 * done + total) \div (2 * total)

velocity_status(rate) ==
    IF rate >= 800 THEN "excellent"
    ELSE IF rate >= 600 THEN "good"
    ELSE IF rate >= 300 THEN "at_risk"
    ELSE "critical"

\* the except branch of jira_velocity
jira_velocity_failed(f, exc) ==
    returns(f, [error |-> exc.msg,
                jira_mode |-> "error",
                reasoning |-> Append(f.loc.reasoning,
                    StepOut(4, "Jira velocity analysis failed",
                            [error |-> exc.msg])),
                fallback |-> "Velocity analysis unavailable"])

\* jira_velocity from the query's outcome on
jira_velocity_finish(f, ret, jira) ==
    IF ret.raised THEN jira_velocity_failed(f, ret.exc)
    ELSE LET issues == ret.val
             step2 == StepOut(2, "Retrieved issues from Jira",
                              [issues_count |-> Len(issues)])
             reasoning == Append(f.loc.reasoning, step2)
             g == [f EXCEPT !.loc.reasoning = reasoning]
             total == Len(issues)
             done == done_count(issues)
             rate == completion_rate(done, total)
         IN  IF issues = <<>>
             THEN returns(f, [project |-> project_of(f.loc.kw, jira),
                              total_issues |-> 0,
                              status_breakdown |-> EmptyMap,
                              completion_rate |-> 0,
                              velocity_status |-> "no_data",
                              jira_mode |-> jira_mode(jira),
                              reasoning |-> Append(reasoning,
                                  Step(3, "No issues found - returning mock data"))])
             ELSE IF \E i \in 1..Len(issues) : ~well_formed(issues[i])
             THEN jira_velocity_failed(g, [type |-> "KeyError", msg |-> <<"'","f","i","e","l","d","s","'">>])
             ELSE returns(f, [project |-> project_of(f.loc.kw, jira),
                              total_issues |-> total,
                              done_issues |-> done,
                              completion_rate |-> rate,
                              velocity_status |-> velocity_status(rate),
                              status_breakdown |-> status_counts(issues),
                              jira_mode |-> jira_mode(jira),
                              reasoning |-> Append(reasoning,
                                  StepOut(3, "Calculated project velocity",
                                          [total_issues |-> total,
                                           done_count |-> done,
                                           completion_rate |-> rate,
                                           velocity_status |-> velocity_status(rate)]))])

(***************************************************************************)
(* RisksAgent.analyze_risks (agents/risks/agent.py)                        *)
(***************************************************************************)
P_risks_1 ==
    <<"A","n","a","l","y","z","e"," ","r","i","s","k","s"," ","f","o","r"," ","i","m","p",
      "l","e","m","e","n","t","i","n","g",":"," ">>
P_risks_2 ==
    <<"\n","\n","P","r","o","v","i","d","e"," ","a"," ","c","o","n","c","i","s","e"," ",
      "r","i","s","k"," ","a","n","a","l","y","s","i","s"," ","c","o","v","e","r","i","n",
      "g",":","\n","1","."," ","S","e","c","u","r","i","t","y"," ","r","i","s","k","s",
      " ","(","t","o","p"," ","2","-","3",")","\n","2","."," ","P","e","r","f","o","r",
      "m","a","n","c","e"," ","r","i","s","k","s"," ","(","t","o","p"," ","2",")","\n",
      "3","."," ","T","e","c","h","n","i","c","a","l"," ","d","e","b","t"," ","r","i","s",
      "k","s"," ","(","t","o","p"," ","2",")","\n","4","."," ","C","o","m","p","l","i",
      "a","n","c","e"," ","r","i","s","k","s"," ","(","i","f"," ","a","p","p","l","i","c",
      "a","b","l","e",")","\n","\n","F","o","r"," ","e","a","c","h"," ","r","i","s","k",
      ","," ","p","r","o","v","i","d","e",":","\n","-"," ","R","i","s","k"," ","n","a",
      "m","e"," ","(","b","r","i","e","f",")","\n","-"," ","I","m","p","a","c","t"," ",
      "(","H","i","g","h","/","M","e","d","i","u","m","/","L","o","w",")","\n","-"," ",
      "Q","u","i","c","k"," ","m","i","t","i","g","a","t","i","o","n"," ","s","t","r","a",
      "t","e","g","y"," ","(","1"," ","s","e","n","t","e","n","c","e",")","\n","\n","K",
      "e","e","p"," ","t","o","t","a","l"," ","r","e","s","p","o","n","s","e"," ","u","n",
      "d","e","r"," ","5","0","0"," ","w","o","r","d","s","."," ","U","s","e"," ","b","u",
      "l","l","e","t"," ","p","o","i","n","t","s",".">>
S_RiskColon ==
    <<"R","i","s","k",":">>
S_risk ==
    <<"r","i","s","k">>
risk_markers ==
    { <<"-"," ">>, <<"*"," ">>, <<"U+2022"," ">>, <<"1",".">>, <<"2",".">>, <<"3",".">>, <<"4",".">>, <<"5",".">> }
\* the characters line.lstrip("-*•0123456789. ") removes
risk_strip_chars ==
    {"-", "*", "U+2022", "0", "1", "2", "3", "4", "5", "6", "7", "8", "9", ".", " "}

\* the condition under which a stripped line is looked at
looks_like_risk(line) ==
    /\ line # <<>>
    /\ \/ \E m \in risk_markers : startswith(line, m)
       \/ contains(line, S_RiskColon)
       \/ contains(lower(line), S_risk)

clean_risk_line(line) == strip(lstrip(line, risk_strip_chars))

keep_risk_line(line) ==
    looks_like_risk(strip(line)) /\ Len(clean_risk_line(strip(line))) > 20

stripped_clean(line) == clean_risk_line(strip(line))

\* the extraction loop without detected_risks[:10]
detect_risks_uncut(analysis) ==
    Map(SelectSeq(split(analysis, "\n"), keep_risk_line), stripped_clean)

\* the extraction loop and the cut to the first 10
detect_risks(analysis) ==
    prefix(Map(SelectSeq(split(analysis, "\n"), keep_risk_line), stripped_clean), 10)

\* analyze_risks up to the chat call
analyze_risks_start(f, kw) ==
    LET step1 == StepIn(1, "Risk analysis requested", [feature |-> kw["feature"]])
        prompt == P_risks_1 \o format(kw["feature"]) \o P_risks_2
        step2 == Step(2, "Generated risk analysis prompt")
    IN  call_chat(f, "", [feature |-> kw["feature"],
                          reasoning |-> <<step1, step2>>], prompt)

\* analyze_risks from the chat call's outcome on
analyze_risks_finish(f, ret) ==
    IF ret.raised
    THEN returns(f, [feature |-> f.loc.feature,
                     error |-> ret.exc.msg,
                     reasoning |-> Append(f.loc.reasoning,
                         StepOut(4, "Risk analysis failed",
                                 [error |-> ret.exc.msg])),
                     fallback |-> "Manual risk assessment required"])
    ELSE LET detected_risks == detect_risks(ret.val)
         IN  returns(f, [feature |-> f.loc.feature,
                         risk_analysis |-> ret.val,
                         detected_risks |-> detected_risks,
                         total_risks |-> Len(detected_risks),
                         reasoning |-> Append(f.loc.reasoning,
                             StepOut(3, "Risk analysis completed",
                                     [risks_count |-> Len(detected_risks),
                                      analysis_length |-> Len(ret.val)]))])

(***************************************************************************)
(* PlannerAgent (agents/planner/agent.py)                                  *)
(***************************************************************************)
P_plan_head ==
    <<"Y","o","u"," ","a","r","e"," ","a"," ","s","e","n","i","o","r"," ","p","r","o","j",
      "e","c","t"," ","p","l","a","n","n","e","r",".","\n","B","r","e","a","k"," ","d",
      "o","w","n"," ","t","h","i","s"," ","t","a","s","k"," ","i","n","t","o"," ","3","-",
      "5"," ","c","o","n","c","r","e","t","e",","," ","a","c","t","i","o","n","a","b","l",
      "e"," ","s","u","b","t","a","s","k","s",":","\n">>
P_plan_tail ==
    <<"\n","\n","R","e","t","u","r","n"," ","O","N","L","Y"," ","a"," ","n","u","m","b",
      "e","r","e","d"," ","l","i","s","t",","," ","o","n","e"," ","s","u","b","t","a","s",
      "k"," ","p","e","r"," ","l","i","n","e",".","\n","E","a","c","h"," ","s","u","b",
      "t","a","s","k"," ","s","h","o","u","l","d"," ","b","e"," ","c","l","e","a","r"," ",
      "a","n","d"," ","s","p","e","c","i","f","i","c",".">>
error_indicators ==
    << <<"l","l","m"," ","e","r","r","o","r">>,
       <<"u","n","a","u","t","h","o","r","i","z","e","d">>,
       <<"4","0","1">>,
       <<"c","l","i","e","n","t"," ","e","r","r","o","r">>,
       <<"f","o","r"," ","m","o","r","e"," ","i","n","f","o","r","m","a","t","i","o","n"," ","c","h","e","c","k">>,
       <<"s","t","a","t","u","s","/","4","0","1">>,
       <<"c","o","n","n","e","c","t","i","o","n"," ","e","r","r","o","r">>,
       <<"t","i","m","e","o","u","t">> >>
stub_indicators ==
    << <<"[","s","t","u","b","]">>,
       <<"y","o","u"," ","a","r","e"," ","a"," ","s","e","n","i","o","r"," ","p","r","o","j","e","c","t"," ","p","l","a","n","n","e","r">>,
       <<"r","e","t","u","r","n"," ","o","n","l","y"," ","a"," ","n","u","m","b","e","r","e","d"," ","l","i","s","t">>,
       <<"b","r","e","a","k"," ","d","o","w","n"," ","t","h","i","s"," ","t","a","s","k">>,
       <<"e","a","c","h"," ","s","u","b","t","a","s","k"," ","s","h","o","u","l","d"," ","b","e">> >>
fallback_subtasks ==
    << <<"R","e","s","e","a","r","c","h"," ","r","e","q","u","i","r","e","m","e","n","t","s"," ","a","n","d"," ","c","o","n","s","t","r","a","i","n","t","s">>,
       <<"D","e","s","i","g","n"," ","s","o","l","u","t","i","o","n"," ","a","r","c","h","i","t","e","c","t","u","r","e">>,
       <<"I","m","p","l","e","m","e","n","t"," ","c","o","r","e"," ","f","u","n","c","t","i","o","n","a","l","i","t","y">>,
       <<"A","d","d"," ","v","a","l","i","d","a","t","i","o","n"," ","a","n","d"," ","e","r","r","o","r"," ","h","a","n","d","l","i","n","g">>,
       <<"W","r","i","t","e"," ","t","e","s","t","s"," ","a","n","d"," ","d","o","c","u","m","e","n","t","a","t","i","o","n">> >>
manual_fallback_subtasks ==
    << <<"M","a","n","u","a","l"," ","p","l","a","n","n","i","n","g"," ","r","e","q","u","i","r","e","d">> >>
\* a stripped line is taken as numbered when it starts with one of these
number_start == {"0", "1", "2", "3", "4", "5", "6", "7", "8", "9", ".", "-"}
\* the characters lstrip("0123456789.-) ") removes
subtask_strip_chars == number_start \cup {")", " "}

is_numbered(line) == strip(line) # <<>> /\ strip(line)[1] \in number_start
numbered_text(line) == lstrip(strip(line), subtask_strip_chars)
is_nonblank(line) == strip(line) # <<>>

\* the two list comprehensions of plan: the numbered lines without their
\* numbering, or failing any the first five non-blank lines
parse_subtasks(response) ==
    LET lines == split(response, "\n")
        numbered == Map(SelectSeq(lines, is_numbered), numbered_text)
    IN  IF numbered # <<>> THEN numbered
        ELSE prefix(Map(SelectSeq(lines, is_nonblank), strip), 5)

\* _is_invalid_response
is_invalid_response(subtasks) ==
    IF subtasks = <<>> THEN TRUE
    ELSE LET text == lower(join(subtasks, <<" ">>))
             indicators == error_indicators \o stub_indicators
         IN  \E i \in 1..Len(indicators) : contains(text, indicators[i])

plan_prompt(description) == P_plan_head \o format(description) \o P_plan_tail

\* plan up to the chat call: its locals
plan_enter(description) ==
    [description |-> description,
     reasoning |-> << StepIn(1, "Received task for planning",
                             [description |-> description]),
                      Step(2, "Generated prompt for LLM planning") >>,
     prompt |-> plan_prompt(description)]

\* plan from the chat call's outcome on: the dict it returns
plan_body(p, ret) ==
    IF ret.raised
    THEN [task |-> p.description,
          error |-> ret.exc.msg,
          reasoning |-> Append(p.reasoning,
              StepOut(5, "Critical planning failure", [error |-> ret.exc.msg])),
          fallback_subtasks |-> manual_fallback_subtasks]
    ELSE LET response == ret.val
             subtasks == parse_subtasks(response)
         IN  IF is_invalid_response(subtasks)
             THEN [task |-> p.description,
                   subtasks |-> fallback_subtasks,
                   reasoning |-> Append(p.reasoning,
                       StepOut(4, "Detected LLM stub/error response - using safe fallback subtasks",
                               [fallback_used |-> TRUE,
                                original_response_preview |-> prefix(response, 200)]))]
             ELSE [task |-> p.description,
                   subtasks |-> subtasks,
                   reasoning |-> Append(p.reasoning,
                       StepOut(4, "Successfully parsed subtasks from LLM response",
                               [subtasks_count |-> Len(subtasks),
                                subtasks |-> subtasks]))]

plan_start(f, kw) ==
    LET p == plan_enter(kw["description"]) IN call_chat(f, "", p, p.prompt)

plan_finish(f, ret) == returns(f, plan_body(f.loc, ret))

\* plan_with_jira up to the chat call made by self.plan(description)
plan_with_jira_start(f, kw) ==
    LET step1 == StepIn(1, "Received task for planning with Jira integration",
                        [description |-> kw["description"],
                         project_key |-> kw["project_key"]])
        p == plan_enter(kw["description"])
    IN  call_chat([f EXCEPT !.called = Append(@, "plan")], "plan",
                  [description |-> kw["description"],
                   reasoning |-> <<step1>>,
                   plan |-> p],
                  p.prompt)

\* the dict plan_with_jira returns at its end
plan_with_jira_result(loc, jira) ==
    [task |-> loc.description,
     subtasks |-> loc.subtasks,
     jira_issues |-> loc.jira_issues,
     jira_mode |-> jira_mode(jira),
     reasoning |-> loc.reasoning]

\* the except branch answering with the error record alone
plan_with_jira_failed_alone(f, exc, jira) ==
    LET loc == [f.loc EXCEPT
                  !.reasoning = Append(@, StepOut(5, "Jira task creation failed",
                                                  [error |-> exc.msg])),
                  !.jira_issues = <<[status |-> "error", details |-> exc.msg]>>]
    IN  returns(f, plan_with_jira_result(loc, jira))

\* the except branch around the tracker calls
plan_with_jira_failed(f, exc, jira) ==
    LET loc == [f.loc EXCEPT
                  !.reasoning = Append(@, StepOut(5, "Jira task creation failed",
                                                  [error |-> exc.msg])),
                  !.jira_issues = Append(@, [status |-> "error",
                                             details |-> exc.msg])]
    IN  returns(f, plan_with_jira_result(loc, jira))

\* f"[Subtask {i}] {subtask}"
subtask_summary(i, subtask) ==
    S_SubtaskPrefix \o int_str(i) \o S_SubtaskSep \o subtask

\* the end of the try block: step 4, then the return
plan_with_jira_created(f, loc, jira) ==
    LET done == [loc EXCEPT
                   !.reasoning = Append(@,
                       StepOut(4, "Successfully created all Jira issues",
                               [total_issues_created |-> Len(loc.jira_issues)]))]
    IN  returns(f, plan_with_jira_result(done, jira))

\* plan_with_jira from the return of self.plan on, up to the epic's creation
plan_with_jira_planned(f, plan_result, jira) ==
    LET subtasks == IF "subtasks" \in DOMAIN plan_result
                    THEN plan_result.subtasks ELSE <<>>
        reasoning == f.loc.reasoning \o plan_result.reasoning
        step2 == StepOut(2, "Planning phase completed, initiating Jira integration",
                         [subtasks_count |-> Len(subtasks)])
    IN  IF "error" \in DOMAIN plan_result
           /\ "fallback_subtasks" \notin DOMAIN plan_result
        THEN returns(f, plan_result)
        ELSE call_create(f, "epic",
                         [description |-> f.loc.description,
                          subtasks |-> subtasks,
                          reasoning |-> Append(reasoning, step2),
                          jira_issues |-> <<>>,
                          i |-> 0],
                         S_EpicPrefix \o format(f.loc.description))

\* the loop over the subtasks taking them from the last to the first
plan_with_jira_issue_reversed(f, ret, jira) ==
    IF ret.raised THEN plan_with_jira_failed(f, ret.exc, jira)
    ELSE LET added == [f.loc EXCEPT !.jira_issues = Append(@, ret.val)]
             loc == IF f.phase = "epic"
                    THEN [added EXCEPT !.reasoning = Append(@,
                             StepOut(3, "Created Epic in Jira", [epic |-> ret.val]))]
                    ELSE added
         IN  IF loc.i < Len(loc.subtasks)
             THEN call_create(f, "subtask", [loc EXCEPT !.i = @ + 1],
                              subtask_summary(loc.i + 1,
                                              loc.subtasks[Len(loc.subtasks) - loc.i]))
             ELSE plan_with_jira_created(f, loc, jira)

\* plan_with_jira from the outcome of a create_task call on
plan_with_jira_issue(f, ret, jira) ==
    IF ret.raised THEN plan_with_jira_failed(f, ret.exc, jira)
    ELSE LET added == [f.loc EXCEPT !.jira_issues = Append(@, ret.val)]
             loc == IF f.phase = "epic"
                    THEN [added EXCEPT !.reasoning = Append(@,
                             StepOut(3, "Created Epic in Jira", [epic |-> ret.val]))]
                    ELSE added
         IN  IF loc.i < Len(loc.subtasks)
             THEN call_create(f, "subtask", [loc EXCEPT !.i = @ + 1],
                              subtask_summary(loc.i + 1, loc.subtasks[loc.i + 1]))
             ELSE plan_with_jira_created(f, loc, jira)

(***************************************************************************)
(* Running a handler: from its call to the first suspension, and from the  *)
(* outcome of a gateway call to the next                                   *)
(***************************************************************************)
\* handler(**kw): the body up to its first gateway call
start(f, kw, now, jira) ==
    CASE f.handler = "daily_digest" -> daily_digest_start(f, kw, now)
      [] f.handler = "analyze_image" -> analyze_image_start(f, kw)
      [] f.handler = "analyze_progress" -> analyze_progress_start(f, kw)
      [] f.handler = "jira_velocity" -> jira_velocity_start(f, kw, jira)
      [] f.handler = "analyze_risks" -> analyze_risks_start(f, kw)
      [] f.handler = "plan" -> plan_start(f, kw)
      [] f.handler = "plan_with_jira" -> plan_with_jira_start(f, kw)

\* the body from the outcome ret of the awaited gateway call on
resume(f, ret, jira) ==
    CASE f.handler = "daily_digest" -> daily_digest_finish(f, ret)
      [] f.handler = "analyze_image" -> analyze_image_finish(f, ret)
      [] f.handler = "analyze_progress" -> analyze_progress_finish(f, ret)
      [] f.handler = "jira_velocity" -> jira_velocity_finish(f, ret, jira)
      [] f.handler = "analyze_risks" -> analyze_risks_finish(f, ret)
      [] f.handler = "plan" -> plan_finish(f, ret)
      [] f.handler = "plan_with_jira" /\ f.phase = "plan" ->
            plan_with_jira_planned(f, plan_body(f.loc.plan, ret), jira)
      [] f.handler = "plan_with_jira" /\ f.phase # "plan" ->
            plan_with_jira_issue(f, ret, jira)

\* what a frame keeps of a gateway call: its argument, the upstream reply
\* (kind "none" when no HTTP request was made) and its outcome
NoReply == [kind |-> "none"]
log_chat(f, reply, out) ==
    [f EXCEPT !.chat_log = Append(@, [prompt |-> f.arg, reply |-> reply,
                                      out |-> out])]
log_jira(f, reply, out) ==
    [f EXCEPT !.jira_log = Append(@, [op |-> f.at, arg |-> f.arg, reply |-> reply,
                                      out |-> out])]

\* the coroutine runs on while the gateway answers without an HTTP request
\* (stub or unsupported provider, mock tracker) and is suspended at the
\* first one that needs the network
RECURSIVE run(_, _, _)
run(f, llm, jira) ==
    CASE f.at = "chat" ->
            LET c == chat_begin(llm, f.arg)
            IN  IF c.net THEN f
                ELSE run(resume(log_chat(f, NoReply, c.out), c.out, jira), llm, jira)
      [] f.at = "create" ->
            LET c == create_task_begin(jira, f.arg)
            IN  IF c.net THEN f
                ELSE run(resume(log_jira(f, NoReply, c.out), c.out, jira), llm, jira)
      [] f.at = "search" ->
            LET c == get_project_issues_begin(jira)
            IN  IF c.net THEN f
                ELSE run(resume(log_jira(f, NoReply, c.out), c.out, jira), llm, jira)
      [] OTHER -> f

(***************************************************************************)
(* The /mcp endpoint (MCPAgent.mcp)                                        *)
(***************************************************************************)
\* the answer for a TypeError and for any other exception of the call
call_error(tool_name, exc) ==
    IF exc.type = "TypeError"
    THEN [error |-> E_InvalidParamsHead \o tool_name \o <<"'">>,
          details |-> exc.msg]
    ELSE [error |-> E_ExecutionFailed, tool |-> tool_name, details |-> exc.msg]

\* the envelope putting the handler's value under a key of its own
tool_response_wrapped(tool_name, f) ==
    IF f.at = "return" THEN [result |-> f.result] ELSE call_error(tool_name, f.exc)

\* return await handler(**req.params), and the except clauses around it
tool_response(tool_name, f) ==
    IF f.at = "return" THEN f.result ELSE call_error(tool_name, f.exc)

\* the answer for an unknown tool listing the requested name with the tools
unknown_tool_listed(reg, tool_name) ==
    [error |-> E_UnknownTool \o tool_name,
     available_tools |-> Append(tool_keys(reg), tool_name)]

\* "error": f"Unknown tool: {tool_name}", "available_tools": list(self.tools.keys())
unknown_tool(reg, tool_name) ==
    [error |-> E_UnknownTool \o tool_name, available_tools |-> tool_keys(reg)]

\* mcp up to the handler's call: an answer, or the handler and its arguments
mcp_begin(reg, body) ==
    LET req == parse_request(body)
    IN  IF req.raised
        THEN [answered |-> TRUE, tool_name |-> <<>>,
              response |-> parse_error(req.exc)]
        ELSE LET tool_name == resolve_tool_name(req.val.method)
             IN  IF ~has_tool(reg, tool_name)
                 THEN [answered |-> TRUE, tool_name |-> tool_name,
                       response |-> unknown_tool(reg, tool_name)]
                 ELSE LET handler == get_tool(reg, tool_name)
                          kw == bind_arguments(handler, req.val.params)
                      IN  IF kw.raised
                          THEN [answered |-> TRUE, tool_name |-> tool_name,
                                response |-> call_error(tool_name, kw.exc)]
                          ELSE [answered |-> FALSE, tool_name |-> tool_name,
                                handler |-> handler, kw |-> kw.val]

(***************************************************************************)
(* Inputs: the environment the process starts in, the request bodies, the  *)
(* clock, and what the upstream services answer                            *)
(***************************************************************************)
V_Groq == <<"G","r","o","q">>
V_openai == <<"O","p","e","n","A","I">>
V_key == <<"g","s","k","-","1">>
V_url == <<"h","t","t","p","s",":","/","/","j","i","r","a",".","e","x","a","m","p","l","e","/">>
V_email == <<"d","e","v","@","e","x","a","m","p","l","e">>
V_token == <<"t","o","k">>
D_ship == <<"S","h","i","p"," ","i","t">>
D_2fa == <<"2","F","A"," ","l","o","g","i","n">>
I_DoA == <<"D","o"," ","A">>
I_DoB == <<"D","o"," ","B">>
I_3D == <<"3","D"," ","m","o","d","e","l">>
I_timeout == <<"F","i","x"," ","t","i","m","e","o","u","t">>
R_plain == <<"D","o"," ","A","\n","D","o"," ","B">>
R_text == <<"A","l","l"," ","g","o","o","d">>
X_transport == <<"A","l","l"," ","c","o","n","n","e","c","t","i","o","n"," ","a","t","t","e","m","p","t","s"," ","f","a","i","l","e","d">>
X_status == <<"C","l","i","e","n","t"," ","e","r","r","o","r"," ","'","4","0","1"," ","U","n","a","u","t","h","o","r","i","z","e","d","'"," ","f","o","r"," ","u","r","l">>
X_shape == <<"'","c","h","o","i","c","e","s","'">>
X_http400 == <<"H","T","T","P"," ","4","0","0",":"," ","b","a","d"," ","r","e","q","u","e","s","t">>
X_refused == <<"C","o","n","n","e","c","t","i","o","n"," ","r","e","f","u","s","e","d">>
K_issue == <<"P","R","O","J","-","7">>
M_tools_tools_plan == <<"t","o","o","l","s","/","t","o","o","l","s","/","p","l","a","n">>
M_pl_tools_an == <<"p","l","t","o","o","l","s","/","a","n">>
M_deploy == <<"d","e","p","l","o","y">>
V_date == <<"2","0","2","4","-","0","2","-","2","9">>
V_img == <<"h","t","t","p",":","/","/","i","m","g">>
V_ctx == <<"l","o","g","i","n"," ","p","a","g","e">>
V_feature == <<"p","a","y","m","e","n","t","s">>
V_commit == <<"f","i","x"," ","b","u","g">>
V_KEY == <<"O","P","S">>
S_closed == <<"C","l","o","s","e","d">>
\* how many items the numbered lists the LLM answers with have at most
MaxItems == 2
\* how many issues a tracker query answers with at most
MaxIssues == 2
\* how many bullet lines an analysis text has at most
MaxRiskLines == 11

EnvNames ==
    {"LLM_PROVIDER", "GROQ_API_KEY", "JIRA_URL", "JIRA_EMAIL", "JIRA_API_TOKEN",
     "JIRA_PROJECT_KEY"}
NoEnv == [n \in EnvNames |-> None]

LLMEnvs ==
    { NoEnv,
      [NoEnv EXCEPT !["LLM_PROVIDER"] = Str(V_Groq), !["GROQ_API_KEY"] = Str(V_key)],
      [NoEnv EXCEPT !["LLM_PROVIDER"] = Str(V_openai)] }

JiraSet ==
    [NoEnv EXCEPT !["JIRA_URL"] = Str(V_url), !["JIRA_EMAIL"] = Str(V_email),
                  !["JIRA_API_TOKEN"] = Str(V_token)]
JiraEnvs ==
    { NoEnv, JiraSet,
      [JiraSet EXCEPT !["JIRA_URL"] = None],
      [JiraSet EXCEPT !["JIRA_EMAIL"] = None],
      [JiraSet EXCEPT !["JIRA_API_TOKEN"] = None],
      [JiraSet EXCEPT !["JIRA_URL"] = Str(<<"/">>)],
      [JiraSet EXCEPT !["JIRA_EMAIL"] = Str(<<>>)] }

\* the environment of one process: the union of an LLM and a tracker part
Envs(a) ==
    { [n \in EnvNames |-> IF l[n] # None THEN l[n] ELSE j[n]] :
        l \in LLMEnvs, j \in IF HasJira(a) THEN JiraEnvs ELSE {NoEnv} }

Agents == {"Planner", "Progress", "Digest", "Image", "Risks"}

ToolNames ==
    {T_plan, T_plan_with_jira, T_analyze_progress, T_jira_velocity,
     T_daily_digest, T_analyze_image, T_analyze_risks}

\* method strings: each tool name bare and behind "tools/", and strings
\* that hold "tools/" elsewhere or name nothing
Methods ==
    ToolNames \cup {S_tools_prefix \o n : n \in {T_plan, T_daily_digest, T_jira_velocity}}
        \cup {M_tools_tools_plan, M_pl_tools_an, M_deploy, S_tools_prefix \o M_deploy}

Descriptions == {Str(D_ship), Str(D_2fa), Int(7)}

\* keyword arguments sent as params
ParamMaps ==
    {EmptyMap}
    \cup {("description" :> d) : d \in Descriptions}
    \cup {("description" :> Str(D_ship)) @@ ("project_key" :> Str(V_KEY)),
          ("description" :> Str(D_ship)) @@ ("priority" :> Int(1)),
          ("commits" :> List(<<Str(V_commit), Str(V_commit)>>)),
          ("commits" :> List(<<>>)),
          ("commits" :> Int(5)),
          ("project_key" :> Str(V_KEY)),
          ("date" :> Str(V_date)),
          ("date" :> Str(<<>>)),
          ("date" :> None),
          ("image_url" :> Str(V_img)),
          ("image_base64" :> Str(V_img)) @@ ("context" :> Str(V_ctx)),
          ("context" :> Str(V_ctx)),
          ("feature" :> Str(V_feature))}

Json(v) == [form |-> "json", data |-> v]
RequestObject(method, params) ==
    Dict(("method" :> Str(method)) @@ ("params" :> Dict(params)))

\* bodies of the Request shape
WellFormedBodies ==
    {Json(RequestObject(m, p)) : m \in Methods, p \in ParamMaps}
    \cup {Json(Dict(RequestObject(T_plan, ("description" :> Str(D_ship))).m
                        @@ ("id" :> i) @@ ("jsonrpc" :> Str(<<"2", ".", "0">>)))) :
             i \in {Int(1), None, Str(<<"4", "2">>)}}

\* JSON that is not of the Request shape, and bodies that are not JSON
MalformedBodies ==
    { [form |-> "bytes"], [form |-> "text"],
      Json(List(<<>>)), Json(Str(T_plan)), Json(Int(1)), Json(None),
      Json(Dict(EmptyMap)),
      Json(Dict(("method" :> Str(T_plan)))),
      Json(Dict(("params" :> Dict(EmptyMap)))),
      Json(Dict(("method" :> List(<<>>)) @@ ("params" :> Dict(EmptyMap)))),
      Json(Dict(("method" :> None) @@ ("params" :> Dict(EmptyMap)))),
      Json(Dict(("method" :> Str(T_plan)) @@ ("params" :> Str(D_ship)))),
      Json(Dict(("method" :> Str(T_plan)) @@ ("params" :> None))),
      Json(Dict(RequestObject(T_plan, ("description" :> Str(D_ship))).m
                    @@ ("id" :> Str(<<"x">>)))) }

Bodies == WellFormedBodies \cup MalformedBodies

\* the dates the clock shows
Dates == {[y |-> 2024, m |-> 3, d |-> 7], [y |-> 2025, m |-> 12, d |-> 31]}

\* "1. T1\n2. T2\n..." for the item texts ts
NumberedList(ts) ==
    join([k \in 1..Len(ts) |-> int_str(k) \o <<".", " ">> \o ts[k]], <<"\n">>)

ItemTexts == {I_DoA, I_DoB, I_3D, I_timeout}
ItemLists == UNION {[1..n -> ItemTexts] : n \in 1..MaxItems}

L_risk ==
    <<"T","o","k","e","n"," ","l","e","a","k"," ","r","i","s","k"," ","i","n"," ","l","o",
      "g","i","n"," ","f","l","o","w"," ","#">>
N_short ==
    <<"-"," ","L","o","w"," ","r","i","s","k">>
N_exact20 ==
    <<"*"," ","R","i","s","k"," ","o","f"," ","d","a","t","a"," ","l","o","s","s"," ","o",
      "k">>
N_plain ==
    <<"E","v","e","r","y","t","h","i","n","g"," ","e","l","s","e"," ","i","s"," ","c","o",
      "n","s","i","d","e","r","e","d"," ","s","a","f","e"," ","t","o"," ","s","h","i","p">>
N_tab ==
    <<"-","\t","-"," ","R","i","s","k"," ","i","n"," ","c","a","c","h","e"," ","k","e",
      "y","s",".">>

\* analysis texts for the risk handler: n bullet lines that differ in their
\* last characters, each alone or after one more line: a bullet with a short
\* text, a bullet with a text of 20 characters, a line without marker, a
\* bullet with a tab after the marker
RiskLine(k) == <<"-", " ">> \o L_risk \o int_str(k)
NoiseLines == {N_short, N_exact20, N_plain, N_tab}
RiskAnalyses ==
    { join([k \in 1..n |-> RiskLine(k)], <<"\n">>) : n \in 0..MaxRiskLines }
    \cup { join([k \in 1..(2 * n) |->
                    IF k % 2 = 1 THEN x ELSE RiskLine(k \div 2)], <<"\n">>) :
              n \in 1..MaxRiskLines, x \in NoiseLines }

\* what the chat-completions endpoint answers
LLMFailures ==
    { [kind |-> "transport", msg |-> X_transport],
      [kind |-> "status", msg |-> X_status],
      [kind |-> "shape", msg |-> X_shape] }
\* plan is answered with every list; plan_with_jira, which passes the answer
\* to plan, with one failure and the lists of one item text
LLMReplies(handler) ==
    CASE handler = "plan" ->
            LLMFailures
            \cup { [kind |-> "ok", content |-> c] : c \in {<<>>, R_text, R_plain} }
            \cup { [kind |-> "ok", content |-> NumberedList(ts), items |-> ts] :
                      ts \in ItemLists }
      [] handler = "plan_with_jira" ->
            { [kind |-> "status", msg |-> X_status],
              [kind |-> "ok", content |-> R_plain] }
            \cup { [kind |-> "ok", content |-> NumberedList(ts), items |-> ts] :
                      ts \in {[k \in 1..n |-> I_DoA] : n \in 1..MaxItems} }
      [] handler = "analyze_risks" ->
            LLMFailures
            \cup { [kind |-> "ok", content |-> c] : c \in {R_text} \cup RiskAnalyses }
      [] OTHER ->
            LLMFailures
            \cup { [kind |-> "ok", content |-> c] : c \in {<<>>, R_text, R_plain} }

\* what the tracker answers to an issue creation
JiraCreateReplies ==
    { [kind |-> "created", key |-> K_issue, id |-> Int(10001)],
      [kind |-> "status", msg |-> X_http400],
      [kind |-> "transport", msg |-> X_refused] }

\* what the tracker answers to a search
IssueRecords ==
    { Issue(K_issue, "a", S_Done), Issue(K_issue, "b", S_closed),
      Issue(K_issue, "c", S_ToDo), [key |-> K_issue] }
JiraSearchReplies ==
    { [kind |-> "failed"] }
    \cup { [kind |-> "ok", issues |-> is] :
              is \in UNION {[1..n -> IssueRecords] : n \in 0..MaxIssues} }

(***************************************************************************)
(* State                                                                   *)
(***************************************************************************)
VARIABLES
    env,        \* os.environ at the start of the process
    agent,      \* MCPAgent.name: which agent class the process constructed
    tools,      \* MCPAgent.tools
    llm,        \* the agent's LLMClient
    jira,       \* the agent's JiraClient (None for an agent that has none)
    pc,         \* per request: "idle", "chat", "create", "search" or "done"
    request,    \* per request: the body received
    tool_name,  \* per request: mcp's local tool_name
    frame,      \* per request: the handler invocation
    response    \* per request: what the endpoint returned

vars == <<env, agent, tools, llm, jira, pc, request, tool_name, frame, response>>
config == <<env, agent, tools, llm, jira>>

\* the requests the server may have in flight
Slots == {1, 2}

NoRequest == [form |-> "none"]
NoFrame == NewFrame("none")
NoResponse == [pending |-> TRUE]

\* the state once the agent's __init__ has run
Init ==
    /\ agent \in Agents
    /\ env \in {e \in Envs(agent) : ~LLMClientRaises(e)}
    /\ tools = AgentTools(agent)
    /\ llm = LLMClient(env)
    /\ jira = IF HasJira(agent) THEN JiraClient(env) ELSE None
    /\ pc = [r \in Slots |-> "idle"]
    /\ request = [r \in Slots |-> NoRequest]
    /\ tool_name = [r \in Slots |-> <<>>]
    /\ frame = [r \in Slots |-> NoFrame]
    /\ response = [r \in Slots |-> NoResponse]

\* the handler's locals kept on the agent object: one frame for all requests
Settle_shared(r, f) ==
    /\ frame' = [s \in Slots |-> f]
    /\ IF f.at \in {"return", "raise"}
       THEN /\ response' = [response EXCEPT ![r] = tool_response(tool_name'[r], f)]
            /\ pc' = [pc EXCEPT ![r] = "done"]
       ELSE /\ response' = response
            /\ pc' = [pc EXCEPT ![r] = f.at]

\* the handler stands at f: the endpoint returns, or stays suspended
Settle(r, f) ==
    /\ frame' = [frame EXCEPT ![r] = f]
    /\ IF f.at \in {"return", "raise"}
       THEN /\ response' = [response EXCEPT ![r] = tool_response(tool_name'[r], f)]
            /\ pc' = [pc EXCEPT ![r] = "done"]
       ELSE /\ response' = response
            /\ pc' = [pc EXCEPT ![r] = f.at]

\* POST /mcp arrives: mcp runs to its return or to the first HTTP request
Receive(r) ==
    /\ pc[r] = "idle"
    /\ \E body \in Bodies, now \in Dates :
          LET m == mcp_begin(tools, body)
          IN  /\ request' = [request EXCEPT ![r] = body]
              /\ tool_name' = [tool_name EXCEPT ![r] = m.tool_name]
              /\ IF m.answered
                 THEN /\ response' = [response EXCEPT ![r] = m.response]
                      /\ pc' = [pc EXCEPT ![r] = "done"]
                      /\ frame' = frame
                 ELSE Settle(r, run(start(NewFrame(m.handler), m.kw, now, jira),
                                    llm, jira))
    /\ UNCHANGED config

\* the chat-completions request of a suspended chat call is answered
LLMReply(r) ==
    /\ pc[r] = "chat"
    /\ \E reply \in LLMReplies(frame[r].handler) :
          LET out == chat_end(reply)
          IN  Settle(r, run(resume(log_chat(frame[r], reply, out), out, jira),
                            llm, jira))
    /\ UNCHANGED <<config, request, tool_name>>

\* the issue-creation request of a suspended create_task call is answered
JiraCreateReply(r) ==
    /\ pc[r] = "create"
    /\ \E reply \in JiraCreateReplies :
          LET out == create_task_end(jira, reply)
          IN  Settle(r, run(resume(log_jira(frame[r], reply, out), out, jira),
                            llm, jira))
    /\ UNCHANGED <<config, request, tool_name>>

\* the search request of a suspended get_project_issues call is answered
JiraSearchReply(r) ==
    /\ pc[r] = "search"
    /\ \E reply \in JiraSearchReplies :
          LET out == get_project_issues_end(reply)
          IN  Settle(r, run(resume(log_jira(frame[r], reply, out), out, jira),
                            llm, jira))
    /\ UNCHANGED <<config, request, tool_name>>

\* the response has been sent: the request is over
Deliver(r) ==
    /\ pc[r] = "done"
    /\ pc' = [pc EXCEPT ![r] = "idle"]
    /\ request' = [request EXCEPT ![r] = NoRequest]
    /\ tool_name' = [tool_name EXCEPT ![r] = <<>>]
    /\ frame' = [frame EXCEPT ![r] = NoFrame]
    /\ response' = [response EXCEPT ![r] = NoResponse]
    /\ UNCHANGED config

\* one request at a time
Next ==
    \/ Receive(1)
    \/ LLMReply(1)
    \/ JiraCreateReply(1)
    \/ JiraSearchReply(1)
    \/ Deliver(1)

Spec == Init /\ [][Next]_vars


(***************************************************************************)
(* The handlers against gateways that raise.  LLMClient.chat and the       *)
(* JiraClient methods of this repository catch every Exception of their    *)
(* HTTP request, so under Spec no awaited gateway call raises and the      *)
(* handlers' except clauses are not entered from one.  SpecFault adds the  *)
(* steps of a gateway call that does raise: the case those clauses are     *)
(* written for.                                                            *)
(***************************************************************************)
X_raised ==
    <<"g","a","t","e","w","a","y"," ","d","o","w","n">>
GatewayError == Raise("RuntimeError", X_raised)
RaisedReply == [kind |-> "raised", msg |-> X_raised]

\* await self.llm.chat(prompt) raises
LLMRaise(r) ==
    /\ pc[r] = "chat"
    /\ UNCHANGED <<config, request, tool_name>>
    /\ Settle(r, run(resume(log_chat(frame[r], RaisedReply, GatewayError),
                            GatewayError, jira), llm, jira))

\* await self.jira.create_task(...) or get_project_issues(...) raises
JiraRaise(r) ==
    /\ pc[r] \in {"create", "search"}
    /\ UNCHANGED <<config, request, tool_name>>
    /\ Settle(r, run(resume(log_jira(frame[r], RaisedReply, GatewayError),
                            GatewayError, jira), llm, jira))

NextFault ==
    \/ Receive(1)
    \/ LLMReply(1)
    \/ JiraCreateReply(1)
    \/ JiraSearchReply(1)
    \/ Deliver(1)
    \/ LLMRaise(1)
    \/ JiraRaise(1)

SpecFault == Init /\ [][NextFault]_vars


(***************************************************************************)
(* Requests served concurrently: the event loop runs one coroutine until   *)
(* it awaits an HTTP request, and any suspended request may be the next to *)
(* go on.  The steps are those of Spec, for every slot, over fewer inputs. *)
(***************************************************************************)
ConcCalls ==
    { <<T_plan, ("description" :> Str(D_ship))>>,
      <<S_tools_prefix \o T_plan, ("description" :> Str(D_2fa))>>,
      <<T_plan_with_jira, ("description" :> Str(D_2fa))>>,
      <<T_analyze_progress, ("commits" :> List(<<Str(V_commit), Str(V_commit)>>))>>,
      <<T_analyze_progress, ("commits" :> List(<<>>))>>,
      <<T_jira_velocity, EmptyMap>>,
      <<T_jira_velocity, ("project_key" :> Str(V_KEY))>>,
      <<T_daily_digest, EmptyMap>>,
      <<T_daily_digest, ("date" :> Str(V_date))>>,
      <<T_analyze_image, ("image_url" :> Str(V_img))>>,
      <<T_analyze_image, ("image_base64" :> Str(V_img)) @@ ("context" :> Str(V_ctx))>>,
      <<T_analyze_risks, ("feature" :> Str(V_feature))>>,
      <<T_analyze_risks, ("feature" :> Str(V_ctx))>>,
      <<M_deploy, EmptyMap>> }
ConcBodies ==
    {Json(RequestObject(c[1], c[2])) : c \in ConcCalls} \cup {[form |-> "text"]}
ConcLLMReplies ==
    { [kind |-> "status", msg |-> X_status],
      [kind |-> "ok", content |-> R_text],
      [kind |-> "ok", content |-> NumberedList(<<I_DoA>>), items |-> <<I_DoA>>] }
ConcJiraCreateReplies ==
    { [kind |-> "created", key |-> K_issue, id |-> Int(10001)],
      [kind |-> "status", msg |-> X_http400] }
ConcJiraSearchReplies ==
    { [kind |-> "failed"],
      [kind |-> "ok", issues |-> <<Issue(K_issue, "a", S_Done),
                                   Issue(K_issue, "c", S_ToDo)>>] }

ConcReceive(r) ==
    /\ pc[r] = "idle"
    /\ \E body \in ConcBodies, now \in Dates :
          LET m == mcp_begin(tools, body)
          IN  /\ request' = [request EXCEPT ![r] = body]
              /\ tool_name' = [tool_name EXCEPT ![r] = m.tool_name]
              /\ IF m.answered
                 THEN /\ response' = [response EXCEPT ![r] = m.response]
                      /\ pc' = [pc EXCEPT ![r] = "done"]
                      /\ frame' = frame
                 ELSE Settle(r, run(start(NewFrame(m.handler), m.kw, now, jira),
                                    llm, jira))
    /\ UNCHANGED config

ConcLLMReply(r) ==
    /\ pc[r] = "chat"
    /\ UNCHANGED <<config, request, tool_name>>
    /\ \E reply \in ConcLLMReplies :
          LET out == chat_end(reply)
          IN  Settle(r, run(resume(log_chat(frame[r], reply, out), out, jira),
                            llm, jira))

ConcJiraCreateReply(r) ==
    /\ pc[r] = "create"
    /\ UNCHANGED <<config, request, tool_name>>
    /\ \E reply \in ConcJiraCreateReplies :
          LET out == create_task_end(jira, reply)
          IN  Settle(r, run(resume(log_jira(frame[r], reply, out), out, jira),
                            llm, jira))

ConcJiraSearchReply(r) ==
    /\ pc[r] = "search"
    /\ UNCHANGED <<config, request, tool_name>>
    /\ \E reply \in ConcJiraSearchReplies :
          LET out == get_project_issues_end(reply)
          IN  Settle(r, run(resume(log_jira(frame[r], reply, out), out, jira),
                            llm, jira))

NextConc ==
    \E r \in Slots :
        \/ ConcReceive(r)
        \/ ConcLLMReply(r)
        \/ ConcJiraCreateReply(r)
        \/ ConcJiraSearchReply(r)
        \/ Deliver(r)

SpecConc == Init /\ [][NextConc]_vars

(***************************************************************************)
(* Properties                                                              *)
(***************************************************************************)
Done(r) == pc[r] = "done"
\* a handler's body was entered for the request
Invoked(r) == frame[r].handler # "none"
\* the body is JSON text
IsJson(r) == request[r].form = "json"
\* the body is a JSON object with a string method and an object params
IsRequest(r) ==
    /\ IsJson(r)
    /\ request[r].data.t = "dict"
    /\ "method" \in DOMAIN request[r].data.m
    /\ request[r].data.m["method"].t = "str"
    /\ "params" \in DOMAIN request[r].data.m
    /\ request[r].data.m["params"].t = "dict"
    /\ "id" \in DOMAIN request[r].data.m =>
            \/ request[r].data.m["id"].t \in {"int", "null"}
            \/ /\ request[r].data.m["id"].t = "str"
               /\ is_decimal(request[r].data.m["id"].s)
Method(r) == request[r].data.m["method"].s
Params(r) == request[r].data.m["params"].m
\* the names registered on the agent
Registered == {tools[i].name : i \in 1..Len(tools)}
\* the method is a registered name, bare or behind one "tools/"
Names(m, n) == m = n \/ m = S_tools_prefix \o n
\* the handler registered under the name the method gives
HandlerOf(m) ==
    tools[CHOOSE i \in 1..Len(tools) : Names(m, tools[i].name)].handler
\* the params keys are parameters of h and include those without a default
KeysMatch(ps, h) ==
    /\ DOMAIN ps \subseteq Signature(h).params
    /\ Signature(h).required \subseteq DOMAIN ps
HasError(r) == "error" \in DOMAIN response[r]

\* C1: a valid request that names a registered tool with matching parameter
\* names runs that tool's handler, and what the endpoint returns is the
\* value the handler returned, unchanged
C1_ResultUnmodified ==
    \A r \in Slots :
        (/\ Done(r)
         /\ IsRequest(r)
         /\ \E n \in Registered : Names(Method(r), n)
         /\ KeysMatch(Params(r), HandlerOf(Method(r))))
        => /\ frame[r].handler = HandlerOf(Method(r))
           /\ frame[r].at \in {"return", "raise"}
           /\ frame[r].at = "return" => response[r] = frame[r].result

\* C1 witness: a request behind "tools/" whose handler was suspended on an
\* HTTP request, resumed and returned
C1_Witness ==
    \E r \in Slots :
        /\ Done(r)
        /\ IsRequest(r)
        /\ Method(r) = S_tools_prefix \o T_plan
        /\ KeysMatch(Params(r), "plan")
        /\ frame[r].at = "return"
        /\ frame[r].chat_log # <<>>
        /\ frame[r].chat_log[1].reply.kind = "ok"
        /\ response[r] = frame[r].result
        /\ "subtasks" \in DOMAIN response[r]

\* C2: every body that is not valid JSON, bytes that are not
\* UTF-8 included, is answered with error "Invalid JSON" and runs no handler
C2_Claimed ==
    \A r \in Slots :
        (Done(r) /\ request[r].form \in {"bytes", "text"})
        => HasError(r) /\ response[r].error = E_InvalidJSON /\ ~Invoked(r)

\* the JSON object lacks method or params, or has one of the wrong type
BadShape(r) ==
    /\ IsJson(r)
    /\ request[r].data.t = "dict"
    /\ \/ "method" \notin DOMAIN request[r].data.m
       \/ "params" \notin DOMAIN request[r].data.m
       \/ request[r].data.m["method"].t # "str"
       \/ request[r].data.m["params"].t # "dict"

\* C3: JSON that is not of the Request shape, a JSON value that
\* is no object included, is answered with error "Invalid MCP request
\* format", details and hint, and runs no handler
C3_Claimed ==
    \A r \in Slots :
        (Done(r) /\ IsJson(r) /\ (BadShape(r) \/ request[r].data.t # "dict"))
        => /\ HasError(r)
           /\ response[r].error = E_InvalidFormat
           /\ {"details", "hint"} \subseteq DOMAIN response[r]
           /\ ~Invoked(r)

\* C4: a request of the Request shape is routed to the tool
\* registered as n exactly when its method is n or "tools/" followed by n
C4_Claimed ==
    \A r \in Slots :
        (pc[r] # "idle" /\ IsRequest(r))
        => \A n \in Registered : (tool_name[r] = n) <=> Names(Method(r), n)

\* C5: a valid request whose resolved tool name is not registered is
\* answered with error "Unknown tool: <name>" and the registered names,
\* each once and nothing else, and runs no handler
C5_UnknownTool ==
    \A r \in Slots :
        (Done(r) /\ IsRequest(r) /\ tool_name[r] \notin Registered)
        => /\ HasError(r)
           /\ response[r].error = E_UnknownTool \o tool_name[r]
           /\ "available_tools" \in DOMAIN response[r]
           /\ Range(response[r].available_tools) = Registered
           /\ Len(response[r].available_tools) = Cardinality(Registered)
           /\ ~Invoked(r)

\* C5 witness: an agent with two tools has answered a request for a name it
\* does not have, sent behind "tools/"
C5_Witness ==
    \E r \in Slots :
        /\ Done(r)
        /\ IsRequest(r)
        /\ Method(r) = S_tools_prefix \o M_deploy
        /\ tool_name[r] = M_deploy
        /\ Cardinality(Registered) = 2
        /\ response[r].available_tools = <<T_plan, T_plan_with_jira>>

\* C6: params keys that do not match the handler's parameters
\* are answered with error "Invalid parameters for tool '<name>'", and an
\* exception raised while the handler runs with error "Tool execution
\* failed" and tool = <name>
C6_Claimed ==
    \A r \in Slots :
        (Done(r) /\ IsRequest(r) /\ tool_name[r] \in Registered)
        => /\ ~KeysMatch(Params(r), get_tool(tools, tool_name[r]))
              => /\ HasError(r)
                 /\ response[r].error =
                        E_InvalidParamsHead \o tool_name[r] \o <<"'">>
           /\ (Invoked(r) /\ frame[r].at = "raise")
              => /\ HasError(r)
                 /\ response[r].error = E_ExecutionFailed
                 /\ response[r].tool = tool_name[r]

\* a reply of the LLM provider or of the tracker that reports a failure
Failed(reply) == reply.kind \in {"transport", "status", "shape", "failed"}
\* an HTTP request the invocation made upstream failed
UpstreamFailed(r) ==
    \/ \E i \in 1..Len(frame[r].chat_log) : Failed(frame[r].chat_log[i].reply)
    \/ \E i \in 1..Len(frame[r].jira_log) : Failed(frame[r].jira_log[i].reply)

C8_Claimed ==
    \A r \in Slots :
        (Done(r) /\ Invoked(r) /\ frame[r].at = "return"
            /\ "reasoning" \in DOMAIN response[r])
        => LET steps == response[r].reasoning
           IN  /\ steps # <<>>
               /\ steps[1].step_number = 1
               /\ \A i \in 1..(Len(steps) - 1) :
                     steps[i].step_number <= steps[i + 1].step_number

\* the planning handler ran and returned, and this is its chat call
Planned(r) ==
    /\ Done(r)
    /\ frame[r].handler = "plan"
    /\ frame[r].at = "return"
    /\ Len(frame[r].chat_log) = 1

\* C9: when the LLM response is the stub sentinel, "[stub] " followed by
\* the prompt, the planning handler returns the 5-item fallback list as
\* subtasks, whatever the task description
C9_Claimed ==
    \A r \in Slots :
        (/\ Planned(r)
         /\ frame[r].chat_log[1].out.val = S_StubPrefix \o frame[r].chat_log[1].prompt)
        => response[r].subtasks = fallback_subtasks

\* C10: for an LLM response that is a numbered list, one "k. T" per line,
\* the planning handler returns the item texts T as subtasks, in order and
\* unchanged
C10_Claimed ==
    \A r \in Slots :
        (/\ Planned(r)
         /\ frame[r].chat_log[1].reply.kind = "ok"
         /\ "items" \in DOMAIN frame[r].chat_log[1].reply)
        => response[r].subtasks = frame[r].chat_log[1].reply.items

\* the risk handler ran and returned its analysis
RisksAnalysed(r) ==
    /\ Done(r)
    /\ frame[r].handler = "analyze_risks"
    /\ frame[r].at = "return"
    /\ "detected_risks" \in DOMAIN response[r]
\* the lines of the analysis text that the handler's filter keeps
Qualifying(lines) == {i \in 1..Len(lines) : keep_risk_line(lines[i])}

\* C11: detected_risks has no entry shorter than 20 characters and at most
\* 10 entries, which are the marker-stripped texts of the first qualifying
\* lines of the analysis in text order, and total_risks is its length
C11_DetectedRisks ==
    \A r \in Slots :
        RisksAnalysed(r)
        => LET lines == split(response[r].risk_analysis, "\n")
               Q == Qualifying(lines)
               d == response[r].detected_risks
           IN  /\ Len(d) <= 10
               /\ Len(d) = IF Cardinality(Q) < 10 THEN Cardinality(Q) ELSE 10
               /\ \A j \in 1..Len(d) :
                     /\ Len(d[j]) >= 20
                     /\ \E i \in Q :
                           /\ Cardinality({q \in Q : q < i}) = j - 1
                           /\ d[j] = strip(lstrip(strip(lines[i]), risk_strip_chars))
               /\ response[r].total_risks = Len(d)

\* C11 witness: an analysis with more than 10 qualifying lines, each after
\* a bullet whose text is too short, was cut to its first 10
C11_Witness ==
    \E r \in Slots :
        /\ RisksAnalysed(r)
        /\ LET lines == split(response[r].risk_analysis, "\n")
           IN  /\ Cardinality(Qualifying(lines)) > 10
               /\ lines[1] = N_short
               /\ Len(response[r].detected_risks) = 10
               /\ response[r].detected_risks[10] = L_risk \o <<"1", "0">>
               /\ response[r].total_risks = 10

\* the digest handler ran and returned
DigestReturned(r) ==
    /\ Done(r)
    /\ frame[r].handler = "daily_digest"
    /\ frame[r].at = "return"
\* the request gives no date, or an empty one
DateOmitted(r) ==
    \/ "date" \notin DOMAIN Params(r)
    \/ Params(r)["date"] = None
    \/ Params(r)["date"] = Str(<<>>)
\* s is four digits, two digits and two digits with "-" between them
IsYmd(s) ==
    /\ Len(s) = 10
    /\ \A i \in {1, 2, 3, 4, 6, 7, 9, 10} : s[i] \in Range(Digits)
    /\ s[5] = "-" /\ s[8] = "-"

\* C12: daily_digest without a date (or with an empty one) returns the
\* current date as YYYY-MM-DD and its first reasoning step has auto_date
\* true; with a date it returns that date and auto_date is false
C12_Claimed ==
    \A r \in Slots :
        DigestReturned(r)
        => LET step1 == response[r].reasoning[1]
           IN  IF DateOmitted(r)
               THEN /\ response[r].date.t = "str"
                    /\ IsYmd(response[r].date.s)
                    /\ step1.input_data.auto_date = TRUE
               ELSE /\ response[r].date = Params(r)["date"]
                    /\ step1.input_data.auto_date = FALSE

\* every chat call an invocation has made so far, with what it returned
ChatCalls(r) == {frame[r].chat_log[i] : i \in 1..Len(frame[r].chat_log)}
\* v is a str
IsString(v) == DOMAIN v = 1..Len(v) /\ \A i \in DOMAIN v : v[i] \in STRING

\* C13: chat returns a string and never raises: with provider stub,
\* "[stub] " + prompt without an HTTP request; with a provider that is
\* neither stub nor groq, "[unsupported provider] " + the provider name,
\* without an HTTP request; with groq, the first choice's content, or
\* "[LLM error] " + message when the transport, the status or the shape of
\* the response fails
C13_ChatTotal ==
    \A r \in Slots :
        /\ pc[r] = "chat" => llm.provider = S_groq
        /\ \A c \in ChatCalls(r) :
              /\ ~c.out.raised
              /\ IsString(c.out.val)
              /\ llm.provider = S_stub
                    => c.reply = NoReply /\ c.out.val = S_StubPrefix \o c.prompt
              /\ llm.provider \notin {S_stub, S_groq}
                    => /\ c.reply = NoReply
                       /\ c.out.val = S_UnsupportedPrefix \o llm.provider
              /\ llm.provider = S_groq
                    => /\ c.reply.kind \in {"ok", "transport", "status", "shape"}
                       /\ c.reply.kind = "ok" => c.out.val = c.reply.content
                       /\ c.reply.kind # "ok"
                             => c.out.val = S_LLMErrorPrefix \o c.reply.msg

\* C13 witness: with LLM_PROVIDER=Groq, a chat call whose response had no
\* choices returned the "[LLM error] " string to its handler, which returned
C13_Witness ==
    \E r \in Slots :
        /\ Done(r)
        /\ env["LLM_PROVIDER"] = Str(V_Groq)
        /\ llm.provider = S_groq
        /\ \E c \in ChatCalls(r) :
              /\ c.reply.kind = "shape"
              /\ c.out.val = S_LLMErrorPrefix \o X_shape
        /\ frame[r].at = "return"

\* every tracker call an invocation has made so far, with what it returned
JiraCalls(r) == {frame[r].jira_log[i] : i \in 1..Len(frame[r].jira_log)}
\* the environment variable is not set
Absent(name) == env[name] = None
\* the environment variable is not set, or set to the empty string; for the
\* URL, also set to nothing but "/" characters
Empty(name) ==
    \/ env[name] = None
    \/ env[name].s = <<>>
    \/ name = "JIRA_URL" /\ \A i \in 1..Len(env[name].s) : env[name].s[i] = "/"
JiraNames == {"JIRA_URL", "JIRA_EMAIL", "JIRA_API_TOKEN"}
\* in mock mode no HTTP request to the tracker is made or pending, every
\* create_task returned mock = true and every get_project_issues returned
\* the three records Done, In Progress, To Do
MockAnswers ==
    jira.mock_mode
    => \A r \in Slots :
          /\ pc[r] \notin {"create", "search"}
          /\ \A c \in JiraCalls(r) :
                /\ c.reply = NoReply
                /\ c.op = "create" => c.out.val.mock = TRUE
                /\ c.op = "search"
                      => /\ Len(c.out.val) = 3
                         /\ [i \in 1..3 |-> c.out.val[i].fields.status.name]
                               = <<S_Done, S_InProgress, S_ToDo>>

\* C14 as claimed: the tracker gateway is in mock mode exactly when one of
\* url, email, token was absent at construction, and in mock mode it makes
\* no HTTP request, every create_task returns mock = true and every
\* get_project_issues returns the three records Done, In Progress, To Do
C14_Claimed ==
    HasJira(agent)
    => /\ jira.mock_mode <=> \E n \in JiraNames : Absent(n)
       /\ MockAnswers

\* C14 as amended: the tracker gateway is in mock mode exactly when one of
\* url, email, token was unset or empty at construction, a url of nothing
\* but "/" counting as empty; the mode is the same in every later state;
\* in mock mode it makes no HTTP request, every create_task returns
\* mock = true and every get_project_issues returns the three records Done,
\* In Progress, To Do
C14_MockMode ==
    HasJira(agent)
    => /\ jira.mock_mode <=> \E n \in JiraNames : Empty(n)
       /\ MockAnswers

\* C14 witness: a gateway constructed with JIRA_URL=/ and the other two set
\* is in mock mode and has answered an epic and a subtask creation
C14_Witness ==
    \E r \in Slots :
        /\ HasJira(agent)
        /\ env["JIRA_URL"] = Str(<<"/">>)
        /\ ~Absent("JIRA_EMAIL") /\ ~Absent("JIRA_API_TOKEN")
        /\ jira.mock_mode
        /\ Done(r)
        /\ Len(frame[r].jira_log) >= 2
        /\ \A c \in JiraCalls(r) : c.op = "create" /\ c.out.val.mock = TRUE

\* a gateway call of the invocation raised
GatewayRaised(r) ==
    \/ \E c \in ChatCalls(r) : c.out.raised
    \/ \E c \in JiraCalls(r) : c.out.raised
\* some reasoning step of the answer carries the message as its error
StepCarries(r, msg) ==
    /\ "reasoning" \in DOMAIN response[r]
    /\ \E i \in 1..Len(response[r].reasoning) :
          LET s == response[r].reasoning[i]
          IN  /\ "output_data" \in DOMAIN s
              /\ "error" \in DOMAIN s.output_data
              /\ s.output_data.error = msg

\* C15: in every tool handler, when the LLM call or the tracker call it
\* awaits raises, the handler catches the exception, appends a reasoning
\* step with the message and returns a result with error and with fallback
\* or fallback_subtasks; the exception does not reach the endpoint
C15_Claimed ==
    \A r \in Slots :
        (Done(r) /\ Invoked(r) /\ GatewayRaised(r))
        => /\ frame[r].at = "return"
           /\ response[r] = frame[r].result
           /\ StepCarries(r, X_raised)
           /\ HasError(r)
           /\ \/ "fallback" \in DOMAIN response[r]
              \/ "fallback_subtasks" \in DOMAIN response[r]

\* plan_with_jira ran and returned
PlannedWithJira(r) ==
    /\ Done(r)
    /\ frame[r].handler = "plan_with_jira"
    /\ frame[r].at = "return"
\* what the first k tracker calls of the invocation returned, in call order
Created(r, k) == [i \in 1..k |-> frame[r].jira_log[i].out.val]

\* C16: when a tracker call of plan_with_jira raises after k issues were
\* created, jira_issues is those k results in creation order and then one
\* error record, a reasoning step carries the error, and the result has
\* task, subtasks and reasoning; a creation that returns status "error" is
\* kept as that issue's record, with all earlier and later ones
C16_IssuesKept ==
    \A r \in Slots :
        PlannedWithJira(r)
        => LET calls == frame[r].jira_log
               n == Len(calls)
           IN  /\ {"task", "subtasks", "reasoning", "jira_issues"}
                      \subseteq DOMAIN response[r]
               /\ \A i \in 1..(n - 1) : ~calls[i].out.raised
               /\ n > 0 /\ calls[n].out.raised
                     => /\ response[r].jira_issues
                              = Append(Created(r, n - 1),
                                       [status |-> "error",
                                        details |-> calls[n].out.exc.msg])
                        /\ StepCarries(r, calls[n].out.exc.msg)
               /\ n > 0 /\ ~calls[n].out.raised
                     => /\ response[r].jira_issues = Created(r, n)
                        /\ \A i \in 1..n :
                              calls[i].reply.kind \in {"status", "transport"}
                              => /\ response[r].jira_issues[i].status = "error"
                                 /\ response[r].jira_issues[i].error
                                        = calls[i].reply.msg

\* C16 witness: the second subtask's creation raised after the epic and
\* the first subtask, one of them answered with an HTTP error status
C16_Witness ==
    \E r \in Slots :
        /\ PlannedWithJira(r)
        /\ Len(frame[r].jira_log) = 3
        /\ frame[r].jira_log[1].reply.kind = "created"
        /\ frame[r].jira_log[2].reply.kind = "status"
        /\ frame[r].jira_log[3].out.raised
        /\ Len(response[r].jira_issues) = 3
        /\ response[r].jira_issues[1].status = "created"
        /\ response[r].jira_issues[2].status = "error"
        /\ response[r].jira_issues[3] = [status |-> "error", details |-> X_raised]

\* C18: a plan_with_jira invocation calls plan once, hence the LLM at most
\* once and before any tracker call; its tracker calls are creations, the
\* epic first and then one per returned subtask in subtask order, one at a
\* time; when none raises, jira_issues has len(subtasks) + 1 entries and
\* the epic's result is the first
C18_CreationOrder ==
    \A r \in Slots :
        frame[r].handler = "plan_with_jira"
        => LET calls == frame[r].jira_log
               n == Len(calls)
           IN  /\ frame[r].called = <<"plan_with_jira", "plan">>
               /\ Len(frame[r].chat_log) <= 1
               /\ pc[r] = "chat" => frame[r].chat_log = <<>> /\ calls = <<>>
               /\ (n > 0 \/ pc[r] = "create") => Len(frame[r].chat_log) = 1
               /\ \A i \in 1..n : calls[i].op = "create"
               /\ PlannedWithJira(r)
                     => /\ n >= 1
                        /\ n <= Len(response[r].subtasks) + 1
                        /\ calls[1].arg
                              = S_EpicPrefix \o format(Params(r)["description"])
                        /\ \A i \in 2..n :
                              calls[i].arg
                                 = S_SubtaskPrefix \o int_str(i - 1) \o S_SubtaskSep
                                      \o response[r].subtasks[i - 1]
                        /\ (\A i \in 1..n : ~calls[i].out.raised)
                              => /\ n = Len(response[r].subtasks) + 1
                                 /\ Len(response[r].jira_issues) = n
                                 /\ response[r].jira_issues[1] = calls[1].out.val

\* C18 witness: the LLM answered a list that plan could not parse as
\* numbered, and the epic and the two subtasks "Do A", "Do B" were created
\* in that order in the real tracker
C18_Witness ==
    \E r \in Slots :
        /\ PlannedWithJira(r)
        /\ frame[r].chat_log[1].reply.kind = "ok"
        /\ response[r].subtasks = <<I_DoA, I_DoB>>
        /\ Len(frame[r].jira_log) = 3
        /\ \A i \in 1..3 : frame[r].jira_log[i].reply.kind = "created"
        /\ frame[r].jira_log[3].arg = S_SubtaskPrefix \o <<"2">> \o S_SubtaskSep \o I_DoB
        /\ Len(response[r].jira_issues) = 3

\* the frame of a handler run on its own from f, each gateway call given
\* the outcome logged for it: cl and jl are the chat and tracker calls left
RECURSIVE Alone(_, _, _)
Alone(f, cl, jl) ==
    CASE f.at = "chat" /\ cl # <<>> ->
            Alone(resume(log_chat(f, Head(cl).reply, Head(cl).out),
                         Head(cl).out, jira), Tail(cl), jl)
      [] f.at \in {"create", "search"} /\ jl # <<>> ->
            Alone(resume(log_jira(f, Head(jl).reply, Head(jl).out),
                         Head(jl).out, jira), cl, Tail(jl))
      [] OTHER -> f
\* slot r holds what its request, served alone with the gateway outcomes
\* it got, leads to
ServedAlone(r, now) ==
    LET m == mcp_begin(tools, request[r])
    IN  /\ tool_name[r] = m.tool_name
        /\ IF m.answered
           THEN /\ frame[r] = NoFrame
                /\ pc[r] = "done"
                /\ response[r] = m.response
           ELSE LET f == Alone(start(NewFrame(m.handler), m.kw, now, jira),
                               frame[r].chat_log, frame[r].jira_log)
                IN  /\ frame[r] = f
                    /\ IF f.at \in {"return", "raise"}
                       THEN /\ pc[r] = "done"
                            /\ response[r] = tool_response(m.tool_name, f)
                       ELSE /\ pc[r] = f.at
                            /\ response[r] = NoResponse

\* C17: under every interleaving of two requests, each invocation's frame
\* and answer, its reasoning sequence included, are those of its request
\* served alone with the same gateway outcomes: the steps it appended, in
\* its order, and none of the other request's; the tool registry and the
\* gateways' configuration stay as constructed
C17_Isolation ==
    /\ tools = AgentTools(agent)
    /\ llm = LLMClient(env)
    /\ jira = IF HasJira(agent) THEN JiraClient(env) ELSE None
    /\ \A r \in Slots :
          IF pc[r] = "idle"
          THEN request[r] = NoRequest /\ frame[r] = NoFrame
                  /\ response[r] = NoResponse
          ELSE \E now \in Dates : ServedAlone(r, now)

\* C17 witness: plan_with_jira of one request is suspended in a tracker
\* call while another request, plan for another description, received
\* its LLM reply and was answered
C17_Witness ==
    /\ Done(1)
    /\ frame[1].handler = "plan"
    /\ frame[1].chat_log # <<>> /\ frame[1].chat_log[1].reply.kind = "ok"
    /\ response[1].reasoning[1].input_data.description = Str(D_ship)
    /\ pc[2] = "create"
    /\ frame[2].handler = "plan_with_jira"
    /\ Len(frame[2].jira_log) = 1
    /\ frame[2].loc.reasoning[1].input_data.description = Str(D_2fa)

=============================================================================
